---- MODULE Spec2Model ----
(***************************************************************************)
(* Streeem: the signaling server (rooms, connections, relay, cleanup       *)
(* timers) and the client's negotiation coordinator.                       *)
(*                                                                         *)
(* Spec        the signaling server driven by arbitrary client messages;   *)
(*             connections join the rooms of HomeRooms.                    *)
(* SpecRooms   the same server, every room of RoomIds joined, within one    *)
(*             grace period (no cleanup timer expires), no requestId.      *)
(* SpecClient  one client's negotiation coordinator, driven by arbitrary   *)
(*             server messages about the peers of EnvPeers.                *)
(* SpecSystem  the clients and the server connected by FIFO transports.    *)
(* SpecShare   one client that shares its screen while peers come and go.  *)
(* SpecPlayer  one client's watch-together player receiving snapshots.     *)
(***************************************************************************)
EXTENDS Integers, Sequences, FiniteSets, Bags, TLC

\* ------------------------------------------------------------------ bounds
NumConns == 2
MaxTimers == 2
TicksPerTtl == 1
\* client: RTCPeerConnection objects created, handlers in flight, remote ICE
\* candidates received
MaxPcs == 2
MaxTasks == 2
MaxCands == 2
\* system: joinRoom calls (each draws a fresh userId), leaveRoom calls,
\* messages in flight on
\* one direction of a transport
MaxJoins == 3
MaxLeaves == 2
MaxChan == 1
\* player: last media position (ms) the local player advances to
MaxPositionMs == 15500
\* onGesture invocations followed
MaxInvocations == 2
\* setPlayback calls followed, and messages in flight per transport and
\* direction while they are
MaxPlaybacks == 3
MaxWatchChan == 2
\* icecandidate events followed while two peers connect
MaxIce == 2

\* --------------------------------------------------------------- constants
WS_PROTOCOL_VERSION == 1
REPLACED_CLOSE_CODE == 4000
ROOM_TTL_MS == 5 * 60 * 1000
\* VideoPlayer: drift (s) beyond which it seeks; distance (s) from the last
\* seek target below which it does not seek again
SEEK_DRIFT_SEC == 2
SEEK_LOOP_SEC == 1
MS_PER_SEC == 1000
\* documented drift limit (ms) and playback-rate band (per mille)
DRIFT_LIMIT_MS == 250
RATE_MIN == 980
RATE_MAX == 1020

\* JavaScript undefined
None == "undefined"

ConnIds == 1..NumConns
NoConn == 0
RoomIds == {"r1", "r2"}
\* the rooms that connections join under Spec (every room identifier may
\* still be named by any other message)
HomeRooms == {"r1"}
UserIds == {"u1", "u2", "u3", "u4"}
\* the identities named by the messages of Spec and SpecRooms
EnvUserIds == {"u1", "u2"}
\* the peers the server messages of SpecClient are about
EnvPeers == {"u2"}
DisplayNames == {"ann"}
RequestIds == {None, "q1"}
Payloads == {"d1"}

NoUser == [userId |-> None, displayName |-> None]

\* JavaScript truthiness of an optional string
Truthy(x) == x # None /\ x # ""

RoomScopedTypes ==
    {"chat/send", "watch/set_content", "watch/playback_state",
     "webrtc/offer", "webrtc/answer", "webrtc/ice", "user/update", "reaction/send"}

RelayTypes == {"webrtc/offer", "webrtc/answer", "webrtc/ice"}

\* --------------------------------------------------------------- variables
VARIABLES
    rooms,      \* RoomId -> [exists, connsByUserId, cleanupTimer]
    conns,      \* ConnId -> [ws, user, roomId]
    timers,     \* RoomId -> pending cleanup timers no room object refers to
    emptyFor,   \* RoomId -> ticks for which the room's member map has been empty
    out,        \* effects of the last handler, in program order
    last,       \* the event the last handler was run for
    clients,    \* ConnId -> the client (RoomProvider) that owns the transport
    net,        \* messages in flight, per transport and direction
    hist,       \* fresh userIds drawn; leaveRoom calls; offers relayed; peers listed;
                \* peers gone; room quit
    gesture     \* the state machine of one useGestureDetection effect

svars == <<rooms, conns, timers, emptyFor, out, last>>
cvars == <<clients, net, hist>>
vars == <<rooms, conns, timers, emptyFor, out, last, clients, net, hist, gesture>>

\* ------------------------------------------------ Map<UserId, Conn> helpers
\* A map is a function UserId -> ConnId, NoConn for an absent key.  The claims
\* never speak of the order in which a Map is iterated, so iteration follows
\* the fixed order UserSeq instead of insertion order.
UserSeq == <<"u1", "u2", "u3", "u4">>

EmptyMap == [u \in UserIds |-> NoConn]

MapGet(m, k) == m[k]

MapSet(m, k, v) == [m EXCEPT ![k] = v]

MapDelete(m, k) == [m EXCEPT ![k] = NoConn]

MapKeys(m) == {u \in UserIds : m[u] # NoConn}

MapSize(m) == Cardinality(MapKeys(m))

\* [uid, conn] entries in iteration order
MapEntries(m) ==
    LET Present(u) == m[u] # NoConn
        keys == SelectSeq(UserSeq, Present)
    IN [i \in 1..Len(keys) |-> [uid |-> keys[i], conn |-> m[keys[i]]]]

\* ------------------------------------------------------------- messages
\* Server -> client envelope; unused payload fields stay None.
S2C(type) ==
    [type |-> type, roomId |-> None, userId |-> None, displayName |-> None,
     peers |-> <<>>, requestId |-> None, code |-> None, data |-> None]

\* errorMsg that leaves the requestId out of the payload
errorMsgAnonymous(requestId, code) ==
    [S2C("error") EXCEPT !.code = code]

errorMsg(requestId, code) ==
    [S2C("error") EXCEPT !.requestId = requestId, !.code = code]

ackMsg(requestId) ==
    [S2C("ack") EXCEPT !.requestId = requestId]

\* Client -> server frame.  shape is what JSON.parse makes of the raw text:
\* "object", "not_object" (null, a number, a string) or "invalid_json" (it
\* throws); v, typeof (typeof m["type"]) and payload ("payload" in m) are what
\* isClientEvent looks at.  C2S builds a well-formed envelope.
C2S(type, requestId, roomId, userId, displayName, data) ==
    [shape |-> "object", v |-> WS_PROTOCOL_VERSION, typeof |-> "string",
     payload |-> TRUE,
     type |-> type, requestId |-> requestId, roomId |-> roomId,
     userId |-> userId, displayName |-> displayName, data |-> data]

isClientEvent(m) ==
    /\ m.shape = "object"
    /\ m.v = WS_PROTOCOL_VERSION
    /\ m.typeof = "string"
    /\ m.payload

\* a type string no case of the dispatch names
UnknownType == "bogus/type"

\* Frames that fail JSON.parse or isClientEvent, and envelopes of unknown type.
BadFrames(Qs) ==
    LET Env(t, q) == C2S(t, q, "r1", None, None, None)
        Types == {"room/join", "chat/send", UnknownType}
    IN  {[Env(None, None) EXCEPT !.shape = x] : x \in {"invalid_json", "not_object"}}
        \cup {[Env(t, q) EXCEPT !.v = WS_PROTOCOL_VERSION + 1] : t \in Types, q \in Qs}
        \cup {[Env(None, q) EXCEPT !.typeof = "number"] : q \in Qs}
        \cup {[Env(t, q) EXCEPT !.payload = FALSE] : t \in Types, q \in Qs}
        \cup {Env(UnknownType, q) : q \in Qs}

\* room/join for a room of Rs, with a requestId of Qs
JoinMessages(Rs, Qs) ==
    {C2S("room/join", q, r, u, n, None) :
        q \in Qs, r \in Rs, u \in EnvUserIds, n \in DisplayNames}

LeaveMessages(Qs) ==
    {C2S("room/leave", q, r, None, None, None) : q \in Qs, r \in RoomIds}

\* for the relayed types userId is payload.toUserId
ScopedMessages(Qs) ==
    {C2S(t, q, r, None, None, d) :
        t \in RoomScopedTypes \ RelayTypes, q \in Qs, r \in RoomIds, d \in Payloads}
    \cup {C2S(t, q, r, u, None, d) :
        t \in RelayTypes, q \in Qs, r \in RoomIds, u \in EnvUserIds, d \in Payloads}

\* ------------------------------------------------------------- effects
SendEff(c, msg) == [op |-> "send", conn |-> c, code |-> 0, msg |-> msg]
CloseEff(c, code) == [op |-> "close", conn |-> c, code |-> code, msg |-> S2C(None)]
SetEff(c, roomId, userId) ==
    [op |-> "set", conn |-> c, code |-> 0,
     msg |-> [S2C(None) EXCEPT !.roomId = roomId, !.userId = userId]]

\* The server state a handler works on.
State == [rooms |-> rooms, conns |-> conns, timers |-> timers, out |-> <<>>, full |-> FALSE]

send(S, c, msg) == [S EXCEPT !.out = Append(@, SendEff(c, msg))]

\* A pending timer is the number of ticks left until it is due.  The timer
\* a room object refers to (room._cleanupTimer) is kept in the room record;
\* pending timers that no room object refers to any more are kept, per room
\* identifier, in timers (a sorted sequence: a bag).
NoTimer == -1

NoRoom == [exists |-> FALSE, connsByUserId |-> EmptyMap, cleanupTimer |-> NoTimer]
NewRoom == [exists |-> TRUE, connsByUserId |-> EmptyMap, cleanupTimer |-> NoTimer]

broadcast(S, roomId, msg, exceptUserId) ==
    LET room == S.rooms[roomId]
        m == MapEntries(room.connsByUserId)
        Target(e) == ~(Truthy(exceptUserId) /\ e.uid = exceptUserId)
        targets == SelectSeq(m, Target)
    IN  IF ~room.exists THEN S
        ELSE [S EXCEPT !.out = @ \o [i \in 1..Len(targets) |-> SendEff(targets[i].conn, msg)]]

\* ---------------------------------------------------------------- timers
RECURSIVE Insert(_, _)
Insert(seq, x) ==
    IF seq = <<>> THEN <<x>>
    ELSE IF x <= Head(seq) THEN <<x>> \o seq
         ELSE <<Head(seq)>> \o Insert(Tail(seq), x)

RemoveAt(seq, i) == SubSeq(seq, 1, i - 1) \o SubSeq(seq, i + 1, Len(seq))

PendingCount(S) ==
    LET RECURSIVE Sum(_)
        Sum(rs) ==
            IF rs = {} THEN 0
            ELSE LET r == CHOOSE x \in rs : TRUE
                 IN Len(S.timers[r])
                    + (IF S.rooms[r].cleanupTimer # NoTimer THEN 1 ELSE 0)
                    + Sum(rs \ {r})
    IN Sum(RoomIds)

\* room._cleanupTimer = setTimeout(..., ROOM_TTL_MS): a handle that was still
\* stored in the room object is overwritten and its timer stays pending.
setTimeout(S, roomId) ==
    LET old == S.rooms[roomId].cleanupTimer
        S1 == IF old # NoTimer
              THEN [S EXCEPT !.timers[roomId] = Insert(@, old)] ELSE S
    IN  IF PendingCount(S) >= MaxTimers THEN [S EXCEPT !.full = TRUE]
        ELSE [S1 EXCEPT !.rooms[roomId].cleanupTimer = TicksPerTtl]

\* clearTimeout(room._cleanupTimer); delete room._cleanupTimer
clearTimeout(S, roomId) == [S EXCEPT !.rooms[roomId].cleanupTimer = NoTimer]

\* rooms.delete(roomId): the room object goes, a timer it referred to stays pending
deleteRoom(S, roomId) ==
    LET old == S.rooms[roomId].cleanupTimer
        S1 == IF old # NoTimer
              THEN [S EXCEPT !.timers[roomId] = Insert(@, old)] ELSE S
    IN [S1 EXCEPT !.rooms[roomId] = NoRoom]

\* ------------------------------------------------------------- leaveRoom
leaveRoom(S, c, roomId) ==
    LET room == S.rooms[roomId]
        user == S.conns[c].user
    IN  IF ~room.exists \/ user = NoUser THEN S
        ELSE LET S1 == [S EXCEPT !.rooms[roomId].connsByUserId = MapDelete(@, user.userId)]
                 S2 == broadcast(S1, roomId,
                           [S2C("room/peer_left") EXCEPT !.roomId = roomId,
                                                         !.userId = user.userId],
                           None)
                 S3 == IF MapSize(S2.rooms[roomId].connsByUserId) = 0
                       THEN setTimeout(S2, roomId) ELSE S2
             IN [S3 EXCEPT !.conns[c].roomId = None]

\* ------------------------------------------------------- room/join handler
\* CloseExisting without the test existing.ws !== ws
CloseExistingAnyTransport(S, existing, c) ==
    IF existing # NoConn
    THEN [S EXCEPT !.out = Append(@, CloseEff(existing, REPLACED_CLOSE_CODE)),
                   !.conns[existing].ws = IF @ = "open" THEN "closing" ELSE @]
    ELSE S

CloseExisting(S, existing, c) ==
    IF existing # NoConn /\ existing # c
    THEN [S EXCEPT !.out = Append(@, CloseEff(existing, REPLACED_CLOSE_CODE)),
                   !.conns[existing].ws = IF @ = "open" THEN "closing" ELSE @]
    ELSE S

Register(S, c, roomId, client) ==
    [S EXCEPT !.conns[c].user = client,
              !.conns[c].roomId = roomId,
              !.rooms[roomId].connsByUserId = MapSet(@, client.userId, c),
              !.out = Append(@, SetEff(c, roomId, client.userId))]

Peers(S, roomId, client) ==
    LET m == MapEntries(S.rooms[roomId].connsByUserId)
        Other(e) == e.uid # client.userId /\ S.conns[e.conn].user # NoUser
        others == SelectSeq(m, Other)
    IN [i \in 1..Len(others) |-> S.conns[others[i].conn].user]

\* GetOrCreateRoom without rooms.set
GetRoomOnly(S, roomId) == S

\* let room = rooms.get(roomId); if (!room) { ...; rooms.set(roomId, room) }
GetOrCreateRoom(S, roomId) ==
    IF ~S.rooms[roomId].exists THEN [S EXCEPT !.rooms[roomId] = NewRoom] ELSE S

\* HandleJoin that replays a watch/content to the joining connection
HandleJoinReplay(S, c, msg) ==
    LET roomId == msg.roomId
        client == [userId |-> msg.userId, displayName |-> msg.displayName]
        S1 == GetOrCreateRoom(S, roomId)
        S2 == IF S1.rooms[roomId].cleanupTimer # NoTimer
              THEN clearTimeout(S1, roomId) ELSE S1
        existing == MapGet(S2.rooms[roomId].connsByUserId, client.userId)
        S3 == CloseExisting(S2, existing, c)
        S4 == Register(S3, c, roomId, client)
        S5 == send(S4, c, [S2C("room/joined") EXCEPT !.roomId = roomId,
                                                      !.userId = client.userId,
                                                      !.displayName = client.displayName,
                                                      !.peers = Peers(S4, roomId, client)])
        S6 == send(S5, c, [S2C("watch/content") EXCEPT !.roomId = roomId])
    IN broadcast(S6, roomId,
                 [S2C("room/peer_joined") EXCEPT !.roomId = roomId,
                                                 !.userId = client.userId,
                                                 !.displayName = client.displayName],
                 client.userId)

HandleJoin(S, c, msg) ==
    LET roomId == msg.roomId
        client == [userId |-> msg.userId, displayName |-> msg.displayName]
        S1 == GetOrCreateRoom(S, roomId)
        S2 == IF S1.rooms[roomId].cleanupTimer # NoTimer
              THEN clearTimeout(S1, roomId) ELSE S1
        existing == MapGet(S2.rooms[roomId].connsByUserId, client.userId)
        S3 == CloseExisting(S2, existing, c)
        S4 == Register(S3, c, roomId, client)
        S5 == send(S4, c, [S2C("room/joined") EXCEPT !.roomId = roomId,
                                                      !.userId = client.userId,
                                                      !.displayName = client.displayName,
                                                      !.peers = Peers(S4, roomId, client)])
    IN broadcast(S5, roomId,
                 [S2C("room/peer_joined") EXCEPT !.roomId = roomId,
                                                 !.userId = client.userId,
                                                 !.displayName = client.displayName],
                 client.userId)

\* ------------------------------------------------------ room/leave handler
HandleLeave(S, c, msg) ==
    IF S.conns[c].user = NoUser
    THEN send(S, c, errorMsg(msg.requestId, "unauthorized"))
    ELSE leaveRoom(S, c, msg.roomId)

\* ------------------------------------------- room-scoped message handlers
\* NotInRoom without the comparison roomId !== conn.roomId
NotInRoomUnbound(S, c, msg) ==
    \/ S.conns[c].user = NoUser
    \/ ~Truthy(S.conns[c].roomId)

NotInRoom(S, c, msg) ==
    \/ S.conns[c].user = NoUser
    \/ ~Truthy(S.conns[c].roomId)
    \/ msg.roomId # S.conns[c].roomId

BroadcastType(type) ==
    CASE type = "chat/send" -> "chat/message"
      [] type = "watch/set_content" -> "watch/content"
      [] type = "watch/playback_state" -> "watch/playback_state"
      [] type = "user/update" -> "user/updated"
      [] type = "reaction/send" -> "reaction/received"

\* HandleBroadcast that never sends to the sender
HandleBroadcastExceptSender(S, c, msg) ==
    LET user == S.conns[c].user
        fwd == [S2C(BroadcastType(msg.type)) EXCEPT
                    !.roomId = msg.roomId,
                    !.userId = user.userId,
                    !.displayName =
                        IF msg.type \in {"chat/send", "reaction/send"}
                        THEN user.displayName ELSE None,
                    !.data = msg.data]
    IN broadcast(S, msg.roomId, fwd, user.userId)

HandleBroadcast(S, c, msg) ==
    LET user == S.conns[c].user
        fwd == [S2C(BroadcastType(msg.type)) EXCEPT
                    !.roomId = msg.roomId,
                    !.userId = user.userId,
                    !.displayName =
                        IF msg.type \in {"chat/send", "reaction/send"}
                        THEN user.displayName ELSE None,
                    !.data = msg.data]
    IN broadcast(S, msg.roomId, fwd,
                 IF msg.type = "user/update" THEN user.userId ELSE None)

\* HandleRelay that unbinds the sender when the target is not found
HandleRelayUnbindOnMiss(S, c, msg) ==
    LET room == S.rooms[msg.roomId]
        to == IF room.exists THEN MapGet(room.connsByUserId, msg.userId) ELSE NoConn
    IN  IF to = NoConn
        THEN send([S EXCEPT !.conns[c].roomId = None], c,
                  errorMsg(msg.requestId, "peer_not_found"))
        ELSE send(S, to, [S2C(msg.type) EXCEPT !.roomId = msg.roomId,
                                               !.userId = S.conns[c].user.userId,
                                               !.data = msg.data])

\* HandleRelay that takes fromUserId from the payload
HandleRelayFromPayload(S, c, msg) ==
    LET room == S.rooms[msg.roomId]
        to == IF room.exists THEN MapGet(room.connsByUserId, msg.userId) ELSE NoConn
    IN  IF to = NoConn
        THEN send(S, c, errorMsg(msg.requestId, "peer_not_found"))
        ELSE send(S, to, [S2C(msg.type) EXCEPT !.roomId = msg.roomId,
                                               !.userId = msg.userId,
                                               !.data = msg.data])

HandleRelay(S, c, msg) ==
    LET room == S.rooms[msg.roomId]
        to == IF room.exists THEN MapGet(room.connsByUserId, msg.userId) ELSE NoConn
    IN  IF to = NoConn
        THEN send(S, c, errorMsg(msg.requestId, "peer_not_found"))
        ELSE send(S, to, [S2C(msg.type) EXCEPT !.roomId = msg.roomId,
                                               !.userId = S.conns[c].user.userId,
                                               !.data = msg.data])

HandleRoomScoped(S, c, msg) ==
    IF NotInRoom(S, c, msg)
    THEN send(S, c, errorMsg(msg.requestId, "not_in_room"))
    ELSE IF msg.type \in RelayTypes THEN HandleRelay(S, c, msg)
         ELSE HandleBroadcast(S, c, msg)

\* --------------------------------------------------------- ws.on("message")
\* Ack without the test of requestId
AckAlways(S, c, msg) == send(S, c, ackMsg(msg.requestId))

Ack(S, c, msg) ==
    IF Truthy(msg.requestId) THEN send(S, c, ackMsg(msg.requestId)) ELSE S

Dispatch(S, c, msg) ==
    LET S1 == Ack(S, c, msg)
    IN  CASE msg.type = "room/join" -> HandleJoin(S1, c, msg)
          [] msg.type = "room/leave" -> HandleLeave(S1, c, msg)
          [] msg.type \in RoomScopedTypes -> HandleRoomScoped(S1, c, msg)
          [] OTHER -> send(S1, c, errorMsg(msg.requestId, "bad_request"))

OnMessage(S, c, raw) ==
    IF raw.shape = "invalid_json"
    THEN send(S, c, errorMsg(None, "bad_request"))
    ELSE IF ~isClientEvent(raw)
         THEN send(S, c, errorMsg(None, "bad_request"))
         ELSE Dispatch(S, c, raw)

\* ------------------------------------------------------------ ws.on("close")
\* OnClose without the call of leaveRoom
OnCloseNoLeave(S, c) == [S EXCEPT !.conns[c].ws = "closed"]

OnClose(S, c) ==
    LET S1 == [S EXCEPT !.conns[c].ws = "closed"]
    IN  IF S1.conns[c].user # NoUser /\ Truthy(S1.conns[c].roomId)
        THEN leaveRoom(S1, c, S1.conns[c].roomId)
        ELSE S1

\* ------------------------------------------------- cleanup timer callback
TimerCallback(S, roomId) ==
    LET r == S.rooms[roomId]
    IN  IF r.exists /\ MapSize(r.connsByUserId) = 0
        THEN deleteRoom(S, roomId)
        ELSE S

\* the timer the room object refers to is due
OnHeldTimer(S, roomId) ==
    TimerCallback([S EXCEPT !.rooms[roomId].cleanupTimer = NoTimer], roomId)

\* a timer no room object refers to is due
OnLeakedTimer(S, roomId, i) ==
    TimerCallback([S EXCEPT !.timers[roomId] = RemoveAt(@, i)], roomId)

\* ----------------------------------------------------------- bookkeeping
\* Ticks during which each room's member map has stayed empty, capped at the TTL.
EmptyForAfter(S, ticked) ==
    [r \in RoomIds |->
        IF S.rooms[r].exists /\ MapSize(S.rooms[r].connsByUserId) = 0
        THEN IF rooms[r].exists /\ MapSize(rooms[r].connsByUserId) = 0
             THEN (IF ticked /\ emptyFor[r] < TicksPerTtl THEN emptyFor[r] + 1 ELSE emptyFor[r])
             ELSE 0
        ELSE 0]

NewConn(ws) == [ws |-> ws, user |-> NoUser, roomId |-> None]

ReferencedIn(rs, c) ==
    \E r \in RoomIds : \E u \in UserIds : rs[r].connsByUserId[u] = c

Event(kind, c, msg) == [kind |-> kind, conn |-> c, msg |-> msg]
NoMsg == C2S(None, None, None, None, None, None)
IdleEvent == Event("idle", NoConn, NoMsg)

\* The event loop is idle: the previous handler has returned.
Idle == last = IdleEvent

\* A handler's outcome becomes the server state.  A Conn that is closed and
\* in no member map is unreachable (garbage) and is reset.
Commit(S0, ev) == Idle /\ \E S \in {S0} :
    /\ ~S.full
    /\ rooms' = S.rooms
    /\ conns' = [c \in ConnIds |->
                    IF S.conns[c].ws = "closed" /\ ~ReferencedIn(S.rooms, c)
                    THEN NewConn("closed") ELSE S.conns[c]]
    /\ timers' = S.timers
    /\ out' = S.out
    /\ emptyFor' = EmptyForAfter(S, ev.kind = "tick")
    /\ last' = ev
    /\ UNCHANGED gesture

\* ----------------------------------------------------------------- actions
ServerInit ==
    /\ rooms = [r \in RoomIds |-> NoRoom]
    /\ conns = [c \in ConnIds |-> NewConn("closed")]
    /\ timers = [r \in RoomIds |-> <<>>]
    /\ emptyFor = [r \in RoomIds |-> 0]
    /\ out = <<>>
    /\ last = IdleEvent

\* ================================================================ gestures
\* useGestureDetection: the state machine of hands.onResults.  One effect
\* instance (one set of its closure variables) is followed.
S_IDLE == 0
S_CONFIRMING == 1
S_ACTIVE == 2
S_COOLDOWN == 3
HOLD_FRAMES == 6
NEUTRAL_REQUIRED == 4

\* the labels classify() gives to the frames; None: no gesture recognised
GestureLabels == {"balloons", "laser"}
FrameResults == GestureLabels \cup {None}

\* state, holdFrames, activeGesture, neutralFrames: the closure variables;
\* timerPending: the timer of cooldownTimer has not fired yet; fired: the
\* label onGesture was invoked with by the last step (None: not invoked).
\* What was observed: frames are the results of the last HOLD_FRAMES frames,
\* invocations the onGesture calls so far and neutrals the frames without a
\* result seen in S_COOLDOWN since the last of them.
NewGesture ==
    [state |-> S_IDLE, holdFrames |-> 0, activeGesture |-> None,
     neutralFrames |-> 0, timerPending |-> FALSE, fired |-> None,
     frames |-> <<>>, invocations |-> 0, neutrals |-> 0]

\* the callback of setTimeout(..., 500) that sends the machine back to S_IDLE
activeTimeoutToIdle(G) ==
    [G EXCEPT !.timerPending = FALSE, !.state = S_IDLE, !.activeGesture = None]

\* the callback of setTimeout(..., 500) set when onGesture is invoked
activeTimeout(G) ==
    [G EXCEPT !.timerPending = FALSE, !.state = S_COOLDOWN, !.neutralFrames = 0]

\* hands.onResults with result = classify(landmarks).  The branch
\* "landmarks.length === 0 && state === S_ACTIVE" comes after the return of
\* S_ACTIVE and is never taken.
onResults(G, result) ==
    IF G.state = S_COOLDOWN
    THEN IF result = None
         THEN IF G.neutralFrames + 1 >= NEUTRAL_REQUIRED
              THEN [G EXCEPT !.timerPending = FALSE, !.state = S_IDLE,
                             !.activeGesture = None, !.neutralFrames = 0]
              ELSE [G EXCEPT !.neutralFrames = @ + 1]
         ELSE G
    ELSE IF G.state = S_ACTIVE THEN G
    ELSE IF result = None
         THEN IF G.state = S_CONFIRMING
              THEN [G EXCEPT !.holdFrames = 0, !.state = S_IDLE]
              ELSE G
    ELSE IF G.state = S_IDLE
         THEN [G EXCEPT !.activeGesture = result, !.holdFrames = 1,
                        !.state = S_CONFIRMING]
    ELSE IF result # G.activeGesture
         THEN [G EXCEPT !.activeGesture = result, !.holdFrames = 1]
    ELSE IF G.holdFrames + 1 >= HOLD_FRAMES
         THEN [G EXCEPT !.holdFrames = @ + 1, !.state = S_ACTIVE,
                        !.fired = result, !.timerPending = TRUE]
         ELSE [G EXCEPT !.holdFrames = @ + 1]

\* what an observer of the frames and of onGesture records
Observed(G0, G, result) ==
    LET all == Append(G0.frames, result)
        n == Len(all)
    IN [G EXCEPT
          !.frames = IF n > HOLD_FRAMES THEN SubSeq(all, n - HOLD_FRAMES + 1, n) ELSE all,
          !.invocations = IF G.fired # None THEN @ + 1 ELSE @,
          !.neutrals = IF G.fired # None THEN 0
                       ELSE IF G0.state = S_COOLDOWN /\ result = None
                                /\ @ < NEUTRAL_REQUIRED
                            THEN @ + 1 ELSE @]

\* ================================================================= client
\* One RoomProvider: its refs (currentRoomId, pcsRef, pendingCandidates), the
\* RTCPeerConnection objects it has created and its async handlers in flight.
NoPc == 0
PcIds == 1..MaxPcs

\* rd: pc.remoteDescription is set; video, audio: the track carried by the
\* sender of that kind (None: the session has no such sender)
FreePc == [state |-> "free", peer |-> None, rd |-> FALSE,
           video |-> None, audio |-> None]

\* pendingCandidates.get(peer): absent, or the array stored for the peer
NoQueue == [present |-> FALSE, items |-> <<>>]

\* An async handler suspended at an await.  at names the await:
\*   "media"  joinRoom: getUserMedia and waitForWs
\*   "fetch"  createPeerConnection: fetch('/api/turn-credentials')
\*   "offer"  handlePeerJoined: createOffer, setLocalDescription
\*   "srd"    handleWebrtcOffer, handleWebrtcAnswer: setRemoteDescription
\*   "ice"    flushPendingCandidates: addIceCandidate
\*   "answer" handleWebrtcOffer: createAnswer, setLocalDescription
\*   "display" toggleScreenShare: getDisplayMedia
\* A flush iterates the array it read from pendingCandidates: the array still
\* stored under the peer (attached) or, once the entry has been deleted, the
\* array as it was then (items); idx elements have been visited.
NoTask ==
    [kind |-> "free", at |-> None, peer |-> None, roomId |-> None,
     pc |-> NoPc, attached |-> FALSE, items |-> <<>>, idx |-> 0]

\* the event the client's last step was run for
ClientEvent(kind, type, peer) == [kind |-> kind, type |-> type, peer |-> peer]
NoClientEvent == ClientEvent(None, None, None)

\* The watch-together player: the React state playbackState / currentTime
\* (ms) the sync effect follows, and the media element (position in ms,
\* paused, playbackRate per mille, lastSeekTime in ms).  snap is the last
\* playback snapshot received, with the receiver's clock at its receipt.
NoSnap == [playing |-> FALSE, positionMs |-> -1, hostTsMs |-> 0, nowMs |-> 0]

NewPlayer ==
    [playbackState |-> "paused", currentTime |-> 0,
     pos |-> 0, paused |-> TRUE, rate |-> 1000, lastSeekTime |-> 0,
     snap |-> NoSnap]

Abs(x) == IF x < 0 THEN -x ELSE x

\* VideoPlayer's sync effect (player ready, no error)
syncEffect(P) ==
    LET P1 == IF P.playbackState = "playing" /\ P.paused
              THEN [P EXCEPT !.paused = FALSE]
              ELSE IF P.playbackState = "paused" /\ ~P.paused
                   THEN [P EXCEPT !.paused = TRUE]
                   ELSE P
    IN  IF /\ Abs(P1.pos - P1.currentTime) > SEEK_DRIFT_SEC * MS_PER_SEC
           /\ Abs(P1.currentTime - P1.lastSeekTime) > SEEK_LOOP_SEC * MS_PER_SEC
        THEN [P1 EXCEPT !.pos = P1.currentTime, !.lastSeekTime = P1.currentTime]
        ELSE P1

\* ws.onmessage, watch/playback_state, without setPlaybackState
handlePlaybackStatePositionOnly(C, state) ==
    LET P == [C.player EXCEPT !.currentTime = state.positionMs]
    IN  IF P = C.player THEN C ELSE [C EXCEPT !.player = syncEffect(P)]

\* ws.onmessage, watch/playback_state: setPlaybackState, setCurrentTime; the
\* sync effect runs when one of the two changed
handlePlaybackState(C, state) ==
    LET P == [C.player EXCEPT
                 !.playbackState = IF state.playing THEN "playing" ELSE "paused",
                 !.currentTime = state.positionMs]
    IN  IF P = C.player THEN C ELSE [C EXCEPT !.player = syncEffect(P)]

\* localStream: localStreamRef.current is set; localUser: localUserRef.current
\* is set; isScreenSharing: the React state; screenLive: the display stream's
\* video track is live (its onended can still fire).
\* tasks is the bag of the handlers in flight; calls are the addIceCandidate
\* calls and out the messages sent by the last step; handed are the
\* <<session, candidate>> pairs flushPendingCandidates has handed over so far;
\* restarts are the sessions whose restartIce() the last step has called.
NewClient ==
    [wsOpen |-> FALSE,
     roomId |-> None,
     pcs |-> [p \in PcIds |-> FreePc],
     pcsRef |-> [u \in UserIds |-> NoPc],
     pending |-> [u \in UserIds |-> NoQueue],
     player |-> NewPlayer,
     localStream |-> FALSE,
     localUser |-> FALSE,
     isScreenSharing |-> FALSE,
     screenLive |-> FALSE,
     tasks |-> EmptyBag,
     arrived |-> 0,
     handed |-> {},
     calls |-> <<>>,
     restarts |-> <<>>,
     ev |-> NoClientEvent,
     out |-> <<>>,
     full |-> FALSE]

\* sendWs: dropped unless the WebSocket is open
sendWs(C, msg) == IF C.wsOpen THEN [C EXCEPT !.out = Append(@, msg)] ELSE C

\* pc.addIceCandidate(candidate) is called; via is "direct" (handleWebrtcIce)
\* or "flush" (flushPendingCandidates)
addIceCandidate(C, pc, cand, via) ==
    [C EXCEPT !.calls = Append(@, [pc |-> pc, cand |-> cand, via |-> via]),
              !.handed = IF via = "flush" THEN @ \cup {<<pc, cand>>} ELSE @]

\* pc.iceConnectionState as the handler reads it
IceConnectionStates == {"connected", "disconnected", "failed"}

\* the event of a session's oniceconnectionstatechange
IceEvent(C, pc, state) ==
    [kind |-> "icestate", type |-> state, peer |-> C.pcs[pc].peer, pc |-> pc]

\* oniceconnectionstatechange that closes and removes the failed session
oniceconnectionstatechangeClose(C0, pc, state) ==
    LET C == [C0 EXCEPT !.ev = IceEvent(C0, pc, state)]
    IN  IF state = "failed"
        THEN [C EXCEPT !.pcs[pc].state = "closed",
                       !.pcsRef = [u \in UserIds |-> IF @[u] = pc THEN NoPc ELSE @[u]]]
        ELSE C

\* pc.oniceconnectionstatechange: pc.restartIce() when the state is "failed"
oniceconnectionstatechange(C0, pc, state) ==
    LET C == [C0 EXCEPT !.ev = IceEvent(C0, pc, state)]
    IN  IF state = "failed"
        THEN [C EXCEPT !.restarts = Append(@, pc)]
        ELSE C

\* a handler reaches an await
Suspend(C, task) ==
    IF BagCardinality(C.tasks) >= MaxTasks THEN [C EXCEPT !.full = TRUE]
    ELSE [C EXCEPT !.tasks = @ (+) SetToBag({task})]

\* pendingCandidates.delete(peer): a flush still iterating the deleted array
\* keeps that array
Detach(C, peer, T) ==
    IF T.at = "ice" /\ T.attached /\ T.peer = peer
    THEN [T EXCEPT !.attached = FALSE, !.items = C.pending[peer].items]
    ELSE T

DeleteQueue(C, peer) ==
    LET old == BagToSet(C.tasks)
        new == {Detach(C, peer, T) : T \in old}
        Count(x) ==
            LET from == {T \in old : Detach(C, peer, T) = x}
                RECURSIVE Sum(_)
                Sum(ts) == IF ts = {} THEN 0
                           ELSE LET T == CHOOSE y \in ts : TRUE
                                IN C.tasks[T] + Sum(ts \ {T})
            IN Sum(from)
    IN [C EXCEPT !.pending[peer] = NoQueue,
                 !.tasks = [x \in new |-> Count(x)]]

handleRoomJoined(C, msg) == [C EXCEPT !.localUser = TRUE]

handlePeerJoined(C, msg) ==
    Suspend(C, [NoTask EXCEPT !.kind = "peer_joined", !.at = "fetch",
                              !.peer = msg.userId, !.roomId = msg.roomId])

handlePeerLeft(C, msg) ==
    LET pc == C.pcsRef[msg.userId]
        C1 == IF pc # NoPc
              THEN [C EXCEPT !.pcs[pc].state = "closed", !.pcsRef[msg.userId] = NoPc]
              ELSE C
    IN DeleteQueue(C1, msg.userId)

handleWebrtcOffer(C, msg) ==
    LET pc == C.pcsRef[msg.userId]
        task == [NoTask EXCEPT !.kind = "offer", !.peer = msg.userId,
                               !.roomId = msg.roomId]
    IN  IF pc = NoPc THEN Suspend(C, [task EXCEPT !.at = "fetch"])
        ELSE Suspend(C, [task EXCEPT !.at = "srd", !.pc = pc])

handleWebrtcAnswer(C, msg) ==
    LET pc == C.pcsRef[msg.userId]
    IN  IF pc = NoPc THEN C
        ELSE Suspend(C, [NoTask EXCEPT !.kind = "answer", !.at = "srd", !.pc = pc,
                                       !.peer = msg.userId, !.roomId = msg.roomId])

\* pending.push(candidate); pendingCandidates.current.set(fromUserId, pending)
Buffer(C, peer, cand) ==
    [C EXCEPT !.pending[peer] = [present |-> TRUE, items |-> Append(@.items, cand)]]

\* handleWebrtcIce without the test of pc.remoteDescription
handleWebrtcIceAnyPc(C, msg) ==
    LET pc == C.pcsRef[msg.userId]
        C1 == [C EXCEPT !.arrived = @ + 1]
    IN  IF pc # NoPc
        THEN addIceCandidate(C1, pc, msg.data, "direct")
        ELSE Buffer(C1, msg.userId, msg.data)

handleWebrtcIce(C, msg) ==
    LET pc == C.pcsRef[msg.userId]
        C1 == [C EXCEPT !.arrived = @ + 1]
    IN  IF pc # NoPc /\ C.pcs[pc].rd
        THEN addIceCandidate(C1, pc, msg.data, "direct")
        ELSE Buffer(C1, msg.userId, msg.data)

\* ws.onmessage
OnServerMessage(C0, msg) ==
    LET C == [C0 EXCEPT !.ev = ClientEvent("receive", msg.type, msg.userId)]
    IN  CASE msg.type = "room/joined" -> handleRoomJoined(C, msg)
          [] msg.type = "room/peer_joined" -> handlePeerJoined(C, msg)
          [] msg.type = "room/peer_left" -> handlePeerLeft(C, msg)
          [] msg.type = "webrtc/offer" -> handleWebrtcOffer(C, msg)
          [] msg.type = "webrtc/answer" -> handleWebrtcAnswer(C, msg)
          [] msg.type = "webrtc/ice" -> handleWebrtcIce(C, msg)
          [] msg.type = "watch/playback_state" -> handlePlaybackState(C, msg.data)
          [] OTHER -> C

\* createPeerConnection after its fetch: new RTCPeerConnection,
\* pcsRef.current.set(targetUserId, pc)
createPeerConnection(C, peer) ==
    LET free == {p \in PcIds : C.pcs[p].state = "free"}
    IN  IF free = {} THEN [C EXCEPT !.full = TRUE]
        ELSE LET p == CHOOSE x \in free : \A y \in free : x <= y
             IN [C EXCEPT !.pcs[p] = [FreePc EXCEPT
                                         !.state = "open", !.peer = peer,
                                         !.video = IF C.localStream THEN "camera" ELSE None,
                                         !.audio = IF C.localStream THEN "mic" ELSE None],
                          !.pcsRef[peer] = p]

\* flushPendingCandidates is over: handler T goes on
AfterFlush(C, T) ==
    IF T.kind = "offer"
    THEN Suspend(C, [T EXCEPT !.at = "answer", !.attached = FALSE,
                              !.items = <<>>, !.idx = 0])
    ELSE C

\* flushPendingCandidates up to its first await
StartFlush(C, T) ==
    LET q == C.pending[T.peer]
    IN  IF ~q.present \/ q.items = <<>> THEN AfterFlush(C, T)
        ELSE addIceCandidate(
                 Suspend(C, [T EXCEPT !.at = "ice", !.attached = TRUE, !.idx = 1]),
                 T.pc, q.items[1], "flush")

\* flushPendingCandidates that leaves the array in pendingCandidates
ContinueFlushKeepQueue(C, T) ==
    LET arr == IF T.attached THEN C.pending[T.peer].items ELSE T.items
    IN  IF T.idx < Len(arr)
        THEN addIceCandidate(Suspend(C, [T EXCEPT !.idx = @ + 1]),
                             T.pc, arr[T.idx + 1], "flush")
        ELSE AfterFlush(C, T)

\* flushPendingCandidates after an await: the next element of the array, or
\* the end of the loop and pendingCandidates.current.delete(targetUserId)
ContinueFlush(C, T) ==
    LET arr == IF T.attached THEN C.pending[T.peer].items ELSE T.items
    IN  IF T.idx < Len(arr)
        THEN addIceCandidate(Suspend(C, [T EXCEPT !.idx = @ + 1]),
                             T.pc, arr[T.idx + 1], "flush")
        ELSE AfterFlush(DeleteQueue(C, T.peer), T)

\* the await of pc.addIceCandidate in the flush loop that lets a rejection
\* leave the handler
AfterCandidateAbort(C, T, ok) == IF ok THEN ContinueFlush(C, T) ELSE C

\* the await of pc.addIceCandidate in the flush loop, inside try/catch: a
\* rejection (ok = FALSE) is logged and the loop goes on
AfterCandidate(C, T, ok) == ContinueFlush(C, T)

\* the event of a handler resuming from the await T.at with outcome ok
ResumeEvent(T, ok) == [kind |-> "resume", type |-> T.at, peer |-> T.peer, ok |-> ok]

LocalSdp == CHOOSE d \in Payloads : TRUE

\* pcsRef.current.forEach(pc => ...): the sender whose track is of the given
\* kind, if the session has one, gets the replacement track
ReplaceTracks(C, video, audio) ==
    [C EXCEPT !.pcs = [p \in PcIds |->
        IF \E u \in UserIds : C.pcsRef[u] = p
        THEN [C.pcs[p] EXCEPT
                 !.video = IF @ # None /\ video # None THEN video ELSE @,
                 !.audio = IF @ # None /\ audio # None THEN audio ELSE @]
        ELSE C.pcs[p]]]

ShareUpdate(C, sharing) ==
    sendWs(C, C2S("user/update", None, C.roomId, None, None,
                  IF sharing THEN "sharing" ELSE "not_sharing"))

\* toggleScreenShare, start branch after getDisplayMedia resolved; withAudio:
\* the display stream has an audio track
startScreenShare(C, withAudio) ==
    ShareUpdate(ReplaceTracks([C EXCEPT !.isScreenSharing = TRUE, !.screenLive = TRUE],
                              "screen", IF withAudio THEN "system" ELSE None),
                TRUE)

\* toggleScreenShare, stop branch
stopScreenShare(C) ==
    LET C1 == [C EXCEPT !.isScreenSharing = FALSE, !.screenLive = FALSE]
        C2 == IF C1.localStream THEN ReplaceTracks(C1, "camera", "mic") ELSE C1
    IN ShareUpdate(C2, FALSE)

\* toggleScreenShare as the callback created by a render in which the state
\* isScreenSharing had the value sharing; withAudio: the display stream that
\* getDisplayMedia will give has an audio track
toggleScreenShare(C0, sharing, withAudio) ==
    LET C == [C0 EXCEPT !.ev = ClientEvent("toggleScreenShare", None, None)]
    IN  IF ~C.localUser \/ C.roomId = None THEN C
        ELSE IF sharing THEN stopScreenShare(C)
        ELSE Suspend(C, [NoTask EXCEPT
                            !.kind = IF withAudio THEN "share_av" ELSE "share_v",
                            !.at = "display"])

\* displayStream.getVideoTracks()[0].onended: the callback it calls is the
\* toggleScreenShare of the render that started the share, in which
\* isScreenSharing was false
onended(C0, withAudio) ==
    toggleScreenShare([C0 EXCEPT !.screenLive = FALSE], FALSE, withAudio)
LocalName == CHOOSE n \in DisplayNames : TRUE

\* Handler T resumes after its await; ok is the outcome of
\* setRemoteDescription.  An operation on a closed RTCPeerConnection never
\* completes successfully: the handler goes no further.
Resume(C0, T, ok) ==
    LET C == [C0 EXCEPT !.tasks = @ (-) SetToBag({T}),
                        !.ev = ResumeEvent(T, ok)]
        closed == T.pc # NoPc /\ C.pcs[T.pc].state = "closed"
    IN  CASE T.at = "media" ->
               sendWs([C EXCEPT !.localStream = TRUE],
                      C2S("room/join", None, T.roomId, T.peer, LocalName, None))
          [] T.at = "display" ->
               IF ok THEN startScreenShare(C, T.kind = "share_av") ELSE C
          [] T.at = "fetch" ->
               LET C1 == createPeerConnection(C, T.peer)
               IN  IF C1.full THEN C1
                   ELSE Suspend(C1, [T EXCEPT
                            !.at = IF T.kind = "peer_joined" THEN "offer" ELSE "srd",
                            !.pc = C1.pcsRef[T.peer]])
          [] T.at = "offer" ->
               IF closed THEN C
               ELSE sendWs(C, C2S("webrtc/offer", None, T.roomId, T.peer, None, LocalSdp))
          [] T.at = "srd" ->
               IF closed \/ ~ok THEN C
               ELSE StartFlush([C EXCEPT !.pcs[T.pc].rd = TRUE], T)
          [] T.at = "ice" -> AfterCandidate(C, T, ok)
          [] T.at = "answer" ->
               IF closed THEN C
               ELSE sendWs(C, C2S("webrtc/answer", None, T.roomId, T.peer, None, LocalSdp))

\* pc.onicecandidate of the session for peer, event.candidate set: webrtc/ice
\* to the peer when currentRoomId is set
onicecandidate(C0, peer, cand) ==
    LET C == [C0 EXCEPT !.ev = ClientEvent("icecandidate", None, peer)]
    IN  IF C.roomId = None THEN C
        ELSE sendWs(C, C2S("webrtc/ice", None, C.roomId, peer, None, cand))

\* setPlayback(state, time): setPlaybackState, setCurrentTime (the sync
\* effect runs when one of the two changed), then watch/playback_state
setPlayback(C0, snap) ==
    LET C == [C0 EXCEPT !.ev = ClientEvent("setPlayback", None, None)]
        P == [C.player EXCEPT
                 !.playbackState = IF snap.playing THEN "playing" ELSE "paused",
                 !.currentTime = snap.positionMs]
        C1 == IF P = C.player THEN C ELSE [C EXCEPT !.player = syncEffect(P)]
    IN  IF C.roomId = None THEN C
        ELSE sendWs(C1, C2S("watch/playback_state", None, C.roomId, None, None, snap))

\* joinRoom up to its first await; userId is the identity it will draw
joinRoom(C0, roomId, userId) ==
    LET C == [C0 EXCEPT !.ev = ClientEvent("joinRoom", None, userId)]
    IN Suspend([C EXCEPT !.roomId = roomId],
               [NoTask EXCEPT !.kind = "join", !.at = "media",
                              !.peer = userId, !.roomId = roomId])

clientLeaveRoom(C0) ==
    LET C == [C0 EXCEPT !.ev = ClientEvent("leaveRoom", None, None)]
        C1 == IF C.roomId # None
              THEN sendWs(C, C2S("room/leave", None, C.roomId, None, None, None))
              ELSE C
    IN [C1 EXCEPT !.roomId = None,
                  !.localStream = FALSE,
                  !.localUser = FALSE,
                  !.screenLive = FALSE,
                  !.pcs = [p \in PcIds |->
                              IF \E u \in UserIds : C.pcsRef[u] = p
                              THEN [C.pcs[p] EXCEPT !.state = "closed"]
                              ELSE C.pcs[p]],
                  !.pcsRef = [u \in UserIds |-> NoPc]]

NoTraffic == [c2s |-> [c \in ConnIds |-> <<>>], s2c |-> [c \in ConnIds |-> <<>>]]
\* gone: the peers whose room/peer_left was the last message handled about
\* them; quit: leaveRoom() was called and no message and no joinRoom() since
\* plays: setPlayback calls; lastSnap: the state of the last
\* watch/playback_state the server has broadcast, <<>> before the first;
\* raced: a setPlayback was called while a snapshot was on its way to the caller;
\* offers, answers: webrtc/offer and webrtc/answer messages sent by the clients;
\* gathering: <<client, peer>> whose session has its local description;
\* ices: icecandidate events so far
NoHistory == [nextId |-> 1, left |-> 0, offered |-> {}, listed |-> {},
              gone |-> {}, quit |-> FALSE, plays |-> 0, lastSnap |-> <<>>,
              raced |-> FALSE, offers |-> <<>>, answers |-> <<>>,
              gathering |-> {}, ices |-> 0]

\* The handler returns to the event loop; its effects are no longer observed.
Return ==
    /\ ~Idle
    /\ out' = <<>>
    /\ last' = IdleEvent
    /\ clients' = [k \in ConnIds |->
                       [clients[k] EXCEPT !.out = <<>>, !.calls = <<>>,
                                           !.restarts = <<>>, !.ev = NoClientEvent]]
    /\ UNCHANGED <<rooms, conns, timers, emptyFor, net, hist, gesture>>

Init ==
    /\ ServerInit
    /\ clients = [k \in ConnIds |-> NewClient]
    /\ net = NoTraffic
    /\ hist = NoHistory
    /\ gesture = NewGesture

\* wss.on("connection"): a new transport and its Conn
Connect(c) ==
    /\ conns[c].ws = "closed"
    /\ ~ReferencedIn(rooms, c)
    /\ Commit(send([State EXCEPT !.conns[c] = NewConn("open")],
                   c, S2C("server/hello")),
              Event("connect", c, NoMsg))
    /\ UNCHANGED cvars

Message(c, msg) ==
    /\ conns[c].ws # "closed"
    /\ Commit(OnMessage(State, c, msg), Event("message", c, msg))
    /\ UNCHANGED cvars

Close(c) ==
    /\ conns[c].ws # "closed"
    /\ Commit(OnClose(State, c), Event("close", c, NoMsg))
    /\ UNCHANGED cvars

TimerEvent(r) == Event("timer", NoConn, [NoMsg EXCEPT !.roomId = r])

HeldTimerFire(r) ==
    /\ rooms[r].cleanupTimer = 0
    /\ Commit(OnHeldTimer(State, r), TimerEvent(r))
    /\ UNCHANGED cvars

LeakedTimerFire(r) ==
    /\ \E i \in 1..Len(timers[r]) :
         /\ timers[r][i] = 0
         /\ Commit(OnLeakedTimer(State, r, i), TimerEvent(r))
    /\ UNCHANGED cvars

Dec(t) == IF t > 0 THEN t - 1 ELSE t

Tick ==
    /\ Commit([State EXCEPT
                  !.timers = [r \in RoomIds |-> [i \in 1..Len(timers[r]) |-> Dec(timers[r][i])]],
                  !.rooms = [r \in RoomIds |->
                                [rooms[r] EXCEPT !.cleanupTimer = IF @ = NoTimer THEN @ ELSE Dec(@)]]],
              Event("tick", NoConn, NoMsg))
    /\ UNCHANGED cvars

\* POST /create-room
CreateRoom(r) ==
    /\ ~rooms[r].exists
    /\ Commit([State EXCEPT !.rooms[r] = NewRoom], Event("create-room", NoConn, NoMsg))
    /\ UNCHANGED cvars

\* Connections come and go, join and leave the rooms of Rs.
Membership(Rs, Qs) ==
    \/ \E c \in ConnIds : Connect(c)
    \/ \E c \in ConnIds :
          \E msg \in JoinMessages(Rs, Qs) \cup LeaveMessages(Qs) : Message(c, msg)
    \/ \E c \in ConnIds : Close(c)
    \/ Return

\* Time passes and cleanup timers fire.
Cleanup ==
    \/ \E r \in RoomIds : HeldTimerFire(r)
    \/ \E r \in RoomIds : LeakedTimerFire(r)
    \/ Tick

Scoped(Qs) == \E c \in ConnIds : \E msg \in ScopedMessages(Qs) : Message(c, msg)

\* Frames that are not envelopes the server knows.
Malformed(Qs) == \E c \in ConnIds : \E raw \in BadFrames(Qs) : Message(c, raw)

Next ==
    \/ Membership(HomeRooms, RequestIds)
    \/ \E r \in HomeRooms : CreateRoom(r)
    \/ Cleanup
    \/ Scoped(RequestIds)
    \/ Malformed(RequestIds)

Spec == Init /\ [][Next]_vars

\* Both rooms are joined; no cleanup timer becomes due (the registry between
\* two expiries) and no message carries a requestId.
NextRooms == Membership(RoomIds, {None}) \/ Scoped({None})

SpecRooms == Init /\ [][NextRooms]_vars

\* ------------------------------------------- the client with its environment
TheClient == 1

\* The server messages the environment may deliver next; candidates are
\* numbered in the order of their arrival.
EnvMessages(C) ==
    {[S2C(t) EXCEPT !.roomId = "r1", !.userId = p] :
        t \in {"room/joined", "room/peer_joined", "room/peer_left",
               "webrtc/offer", "webrtc/answer"},
        p \in EnvPeers}
    \cup {[S2C("webrtc/ice") EXCEPT !.roomId = "r1", !.userId = p,
                                    !.data = C.arrived + 1] :
            p \in {q \in EnvPeers : C.arrived < MaxCands}}

\* A client handler runs up to its next await (or to its end).
ClientStep(k, C0) == Idle /\ \E C \in {C0} :
    /\ ~C.full
    /\ clients' = [clients EXCEPT ![k] = C]
    /\ last' = Event("client", k, NoMsg)
    /\ UNCHANGED <<rooms, conns, timers, emptyFor, out, gesture>>

\* ws.onopen
ClientOpen(k) ==
    /\ ~clients[k].wsOpen
    /\ ClientStep(k, [clients[k] EXCEPT !.wsOpen = TRUE,
                                        !.ev = ClientEvent("open", None, None)])
    /\ UNCHANGED <<net, hist>>

ClientReceive(k, msg) ==
    /\ clients[k].wsOpen
    /\ ClientStep(k, OnServerMessage(clients[k], msg))
    /\ hist' = [hist EXCEPT !.gone = IF msg.type = "room/peer_left"
                                     THEN @ \cup {msg.userId}
                                     ELSE @ \ {msg.userId},
                            !.quit = FALSE]
    /\ UNCHANGED net

ClientResume(k, ok) ==
    \E T \in BagToSet(clients[k].tasks) :
        /\ ok \/ T.at \in {"srd", "ice", "display"}
        /\ ClientStep(k, Resume(clients[k], T, ok))
    /\ UNCHANGED <<net, hist>>

ClientLeaveRoom(k) ==
    /\ ClientStep(k, clientLeaveRoom(clients[k]))
    /\ hist' = [hist EXCEPT !.quit = TRUE]
    /\ UNCHANGED net

\* the ICE connection state of a session that is not closed changes
ClientIceStateChange(k, pc, state) ==
    /\ clients[k].pcs[pc].state = "open"
    /\ ClientStep(k, oniceconnectionstatechange(clients[k], pc, state))
    /\ UNCHANGED <<net, hist>>

NextClient ==
    \/ ClientOpen(TheClient)
    \/ \E pc \in PcIds, st \in IceConnectionStates :
          ClientIceStateChange(TheClient, pc, st)
    \/ \E msg \in EnvMessages(clients[TheClient]) : ClientReceive(TheClient, msg)
    \/ \E ok \in BOOLEAN : ClientResume(TheClient, ok)
    \/ ClientLeaveRoom(TheClient)
    \/ Return

SpecClient == Init /\ [][NextClient]_vars

\* ------------------------------------------- the client sharing its screen
ClientJoinRoom(k, r, u) ==
    /\ ClientStep(k, joinRoom(clients[k], r, u))
    /\ hist' = [hist EXCEPT !.quit = FALSE]
    /\ UNCHANGED net

\* the share button: the callback of the latest render
ClientToggleScreenShare(k, withAudio) ==
    /\ ClientStep(k, toggleScreenShare(clients[k], clients[k].isScreenSharing, withAudio))
    /\ UNCHANGED <<net, hist>>

\* the browser's own stop-sharing control ends the display stream's track
ClientTrackEnded(k, withAudio) ==
    /\ clients[k].screenLive
    /\ ClientStep(k, [onended(clients[k], withAudio) EXCEPT
                         !.ev = ClientEvent("onended", None, None)])
    /\ UNCHANGED <<net, hist>>

\* The server messages delivered while the client shares: membership and
\* offers.
ShareMessages ==
    {[S2C(t) EXCEPT !.roomId = "r1", !.userId = p] :
        t \in {"room/joined", "room/peer_joined", "room/peer_left", "webrtc/offer"},
        p \in EnvPeers}

\* a handler resumes; granted is the outcome of getDisplayMedia
ClientShareResume(k, granted) ==
    \E T \in BagToSet(clients[k].tasks) :
        /\ granted \/ T.at = "display"
        /\ ClientStep(k, Resume(clients[k], T, granted))
    /\ UNCHANGED <<net, hist>>

NextShare ==
    \/ ClientOpen(TheClient)
    \/ ClientJoinRoom(TheClient, "r1", "u1")
    \/ \E msg \in ShareMessages : ClientReceive(TheClient, msg)
    \/ \E ok \in BOOLEAN : ClientShareResume(TheClient, ok)
    \/ \E a \in BOOLEAN : ClientToggleScreenShare(TheClient, a)
    \/ \E a \in BOOLEAN : ClientTrackEnded(TheClient, a)
    \/ ClientLeaveRoom(TheClient)
    \/ Return

SpecShare == Init /\ [][NextShare]_vars

\* ------------------------------------------- the client watching together
\* positions (ms) and clocks (ms) of the playback snapshots
SnapPositionsMs == {0, 10000, 14500, 14900, 15000}
SnapHostTsMs == {1000}
SnapNowMs == {500, 1000, 6000}
\* the local player advances by this much (ms) at a time
AdvanceMs == 100

Snapshots ==
    [playing : BOOLEAN, positionMs : SnapPositionsMs, hostTsMs : SnapHostTsMs]

\* A playback snapshot arrives when the receiver's clock shows nowMs.
PlayerReceive(k, state, nowMs) ==
    /\ clients[k].wsOpen
    /\ ClientStep(k, [OnServerMessage(clients[k],
                                      [S2C("watch/playback_state") EXCEPT
                                           !.roomId = "r1", !.data = state])
                         EXCEPT !.player.snap =
                             [playing |-> state.playing, positionMs |-> state.positionMs,
                              hostTsMs |-> state.hostTsMs, nowMs |-> nowMs]])
    /\ UNCHANGED <<net, hist>>

\* the media element plays on
PlayerAdvance(k) ==
    /\ ~clients[k].player.paused
    /\ clients[k].player.pos + AdvanceMs <= MaxPositionMs
    /\ ClientStep(k, [clients[k] EXCEPT !.player.pos = @ + AdvanceMs,
                                        !.ev = ClientEvent("advance", None, None)])
    /\ UNCHANGED <<net, hist>>

NextPlayer ==
    \/ ClientOpen(TheClient)
    \/ \E state \in Snapshots : \E nowMs \in SnapNowMs :
          PlayerReceive(TheClient, state, nowMs)
    \/ PlayerAdvance(TheClient)
    \/ Return

SpecPlayer == Init /\ [][NextPlayer]_vars

\* ------------------------------------------------- the gesture detector
\* MediaPipe delivers the result of a frame
GestureFrame(result) ==
    /\ gesture.invocations < MaxInvocations
    /\ gesture' = Observed(gesture, onResults([gesture EXCEPT !.fired = None], result),
                           result)
    /\ UNCHANGED <<svars, cvars>>

\* the 500 ms timer set at the invocation fires
GestureTimer ==
    /\ gesture.timerPending
    /\ gesture' = activeTimeout([gesture EXCEPT !.fired = None])
    /\ UNCHANGED <<svars, cvars>>

NextGesture ==
    \/ \E result \in FrameResults : GestureFrame(result)
    \/ GestureTimer

SpecGesture == Init /\ [][NextGesture]_vars

\* ------------------------------------------------- clients and server
\* The messages of a handler's effects reach the transports they were sent
\* on, in program order; ws.send on a transport that is not open is dropped.
RECURSIVE Route(_, _, _)
Route(n, cs, log) ==
    IF log = <<>> THEN n
    ELSE LET e == Head(log)
             n1 == IF e.op = "send" /\ cs[e.conn].ws = "open"
                   THEN [n EXCEPT !.s2c[e.conn] = Append(@, e.msg)]
                   ELSE n
         IN Route(n1, cs, Tail(log))

ChanOk(n) ==
    \A c \in ConnIds : Len(n.c2s[c]) <= MaxChan /\ Len(n.s2c[c]) <= MaxChan

\* What the server has relayed and listed so far: <<from, to>> for every
\* webrtc/offer relayed, <<you, peer>> for every peer of a room/joined reply.
Observe(h, msg, log) ==
    LET sends == {log[i] : i \in DOMAIN log}
    IN [h EXCEPT
          !.offered = @ \cup {<<e.msg.userId, msg.userId>> :
                                e \in {x \in sends : x.msg.type = "webrtc/offer"}},
          !.listed = @ \cup UNION {{<<e.msg.userId, e.msg.peers[i].userId>> :
                                       i \in DOMAIN e.msg.peers} :
                                    e \in {x \in sends : x.msg.type = "room/joined"}}]

\* The client's WebSocket connects: wss.on("connection") and ws.onopen.
SysOpen(k) ==
    /\ conns[k].ws = "closed"
    /\ ~clients[k].wsOpen
    /\ Commit(send([State EXCEPT !.conns[k] = NewConn("open")], k, S2C("server/hello")),
              Event("connect", k, NoMsg))
    /\ clients' = [clients EXCEPT ![k].wsOpen = TRUE]
    /\ net' = Route(net, conns', out')
    /\ ChanOk(net')
    /\ UNCHANGED hist

\* The server takes the next message of transport c.
SysServerReceive(c) ==
    /\ net.c2s[c] # <<>>
    /\ conns[c].ws # "closed"
    /\ Commit(OnMessage(State, c, Head(net.c2s[c])),
              Event("message", c, Head(net.c2s[c])))
    /\ net' = Route([net EXCEPT !.c2s[c] = Tail(@)], conns', out')
    /\ ChanOk(net')
    /\ hist' = Observe(hist, Head(net.c2s[c]), out')
    /\ UNCHANGED clients

\* What the client's last step sent goes onto its transport.
Transmit(k, n) ==
    /\ net' = [n EXCEPT !.c2s[k] = @ \o clients'[k].out]
    /\ ChanOk(net')

\* The client takes the next message of its transport.
SysClientReceive(k) ==
    /\ net.s2c[k] # <<>>
    /\ ClientStep(k, OnServerMessage(clients[k], Head(net.s2c[k])))
    /\ Transmit(k, [net EXCEPT !.s2c[k] = Tail(@)])
    /\ UNCHANGED hist

SysClientResume(k, ok) ==
    /\ \E T \in BagToSet(clients[k].tasks) :
          /\ ok \/ T.at = "srd"
          /\ ClientStep(k, Resume(clients[k], T, ok))
    /\ Transmit(k, net)
    /\ UNCHANGED hist

\* joinRoom(name, roomId); the userId it draws is fresh
SysJoinRoom(k, r) ==
    /\ hist.nextId <= MaxJoins
    /\ ClientStep(k, joinRoom(clients[k], r, UserSeq[hist.nextId]))
    /\ hist' = [hist EXCEPT !.nextId = @ + 1]
    /\ UNCHANGED net

SysLeaveRoom(k) ==
    /\ hist.left < MaxLeaves
    /\ ClientStep(k, clientLeaveRoom(clients[k]))
    /\ Transmit(k, net)
    /\ hist' = [hist EXCEPT !.left = @ + 1]

NextSystem ==
    \/ \E k \in ConnIds : SysOpen(k)
    \/ \E c \in ConnIds : SysServerReceive(c)
    \/ \E k \in ConnIds : SysClientReceive(k)
    \/ \E k \in ConnIds : \E ok \in BOOLEAN : SysClientResume(k, ok)
    \/ \E k \in ConnIds : \E r \in HomeRooms : SysJoinRoom(k, r)
    \/ \E k \in ConnIds : SysLeaveRoom(k)
    \/ Return

SpecSystem == Init /\ [][NextSystem]_vars

\* --------------------------------------- two members watching together
\* Clients 1 and 2 have joined r1 (client 1 as u1, then client 2 as u2) and
\* every message of the joins has been delivered; client 1's handlePeerJoined
\* is still waiting for its fetch.  SpecSystem reaches this state.
WatchMembers == {1, 2}

InitWatch ==
    /\ rooms = [r \in RoomIds |->
                  IF r = "r1"
                  THEN [NewRoom EXCEPT !.connsByUserId =
                           MapSet(MapSet(EmptyMap, "u1", 1), "u2", 2)]
                  ELSE NoRoom]
    /\ conns = [c \in ConnIds |->
                  IF c \in WatchMembers
                  THEN [ws |-> "open", roomId |-> "r1",
                        user |-> [userId |-> UserSeq[c], displayName |-> LocalName]]
                  ELSE NewConn("closed")]
    /\ timers = [r \in RoomIds |-> <<>>]
    /\ emptyFor = [r \in RoomIds |-> 0]
    /\ out = <<>>
    /\ last = IdleEvent
    /\ clients = [k \in ConnIds |->
                    IF k \in WatchMembers
                    THEN [NewClient EXCEPT
                            !.wsOpen = TRUE, !.roomId = "r1",
                            !.localStream = TRUE, !.localUser = TRUE,
                            !.tasks = IF k = 1
                                      THEN SetToBag({[NoTask EXCEPT
                                               !.kind = "peer_joined", !.at = "fetch",
                                               !.peer = "u2", !.roomId = "r1"]})
                                      ELSE EmptyBag]
                    ELSE NewClient]
    /\ net = NoTraffic
    /\ hist = [NoHistory EXCEPT !.nextId = 3, !.listed = {<<"u2", "u1">>}]
    /\ gesture = NewGesture

\* the snapshots setPlayback sends
WatchSnapshots ==
    [playing : BOOLEAN, positionMs : {0, 10000}, hostTsMs : SnapHostTsMs]

WatchChanOk(n) ==
    \A c \in ConnIds : Len(n.c2s[c]) <= MaxWatchChan /\ Len(n.s2c[c]) <= MaxWatchChan

\* a participant plays, pauses or seeks
WatchSetPlayback(k, snap) ==
    /\ hist.plays < MaxPlaybacks
    /\ ClientStep(k, setPlayback(clients[k], snap))
    /\ net' = [net EXCEPT !.c2s[k] = @ \o clients'[k].out]
    /\ WatchChanOk(net')
    /\ hist' = [hist EXCEPT
                   !.plays = @ + 1,
                   !.raced = @ \/ \E j \in WatchMembers \ {k} :
                                    \/ net.c2s[j] # <<>>
                                    \/ \E i \in DOMAIN net.s2c[k] :
                                          net.s2c[k][i].userId = UserSeq[j]]

\* The server takes the next message of transport c.
WatchServerReceive(c) ==
    /\ net.c2s[c] # <<>>
    /\ conns[c].ws # "closed"
    /\ Commit(OnMessage(State, c, Head(net.c2s[c])),
              Event("message", c, Head(net.c2s[c])))
    /\ net' = Route([net EXCEPT !.c2s[c] = Tail(@)], conns', out')
    /\ WatchChanOk(net')
    /\ hist' = IF \E i \in DOMAIN out' : out'[i].msg.type = "watch/playback_state"
               THEN [hist EXCEPT !.lastSnap = <<Head(net.c2s[c]).data>>]
               ELSE hist
    /\ UNCHANGED clients

\* The client takes the next message of its transport.
WatchClientReceive(k) ==
    /\ net.s2c[k] # <<>>
    /\ ClientStep(k, OnServerMessage(clients[k], Head(net.s2c[k])))
    /\ net' = [net EXCEPT !.s2c[k] = Tail(@), !.c2s[k] = @ \o clients'[k].out]
    /\ WatchChanOk(net')
    /\ UNCHANGED hist

NextWatch ==
    \/ \E k \in WatchMembers : \E snap \in WatchSnapshots : WatchSetPlayback(k, snap)
    \/ \E c \in WatchMembers : WatchServerReceive(c)
    \/ \E k \in WatchMembers : WatchClientReceive(k)
    \/ Return

SpecWatch == InitWatch /\ [][NextWatch]_vars

\* ------------------------------------------- two members connecting
\* From the same state: u2 has just joined the room where u1 was, and both
\* stay.  No operation fails.
\* <<from, to>> of the messages of the given type in what a client sent
SentTo(k, msgs, type) ==
    LET RECURSIVE Pick(_)
        Pick(q) == IF q = <<>> THEN <<>>
                   ELSE (IF Head(q).type = type
                         THEN <<<<UserSeq[k], Head(q).userId>>>> ELSE <<>>)
                        \o Pick(Tail(q))
    IN Pick(msgs)

Tally(h, k, C) ==
    [h EXCEPT !.offers = @ \o SentTo(k, C.out, "webrtc/offer"),
              !.answers = @ \o SentTo(k, C.out, "webrtc/answer"),
              !.gathering = IF /\ C.ev.kind = "resume"
                               /\ C.ev.type \in {"offer", "answer"}
                               /\ C.out # <<>>
                            THEN @ \cup {<<k, C.ev.peer>>} ELSE @]

PairClientReceive(k) ==
    /\ net.s2c[k] # <<>>
    /\ ClientStep(k, OnServerMessage(clients[k], Head(net.s2c[k])))
    /\ net' = [net EXCEPT !.s2c[k] = Tail(@), !.c2s[k] = @ \o clients'[k].out]
    /\ WatchChanOk(net')
    /\ hist' = Tally(hist, k, clients'[k])

\* a handler of client k goes on after its await, which succeeded
PairClientResume(k) ==
    /\ \E T \in BagToSet(clients[k].tasks) :
          ClientStep(k, Resume(clients[k], T, TRUE))
    /\ net' = [net EXCEPT !.c2s[k] = @ \o clients'[k].out]
    /\ WatchChanOk(net')
    /\ hist' = Tally(hist, k, clients'[k])

\* a session whose local description is set gathers a candidate
PairIceCandidate(k, peer, cand) ==
    /\ <<k, peer>> \in hist.gathering
    /\ hist.ices < MaxIce
    /\ ClientStep(k, onicecandidate(clients[k], peer, cand))
    /\ net' = [net EXCEPT !.c2s[k] = @ \o clients'[k].out]
    /\ WatchChanOk(net')
    /\ hist' = [hist EXCEPT !.ices = @ + 1]

NextPair ==
    \/ \E c \in WatchMembers : WatchServerReceive(c)
    \/ \E k \in WatchMembers : PairClientReceive(k)
    \/ \E k \in WatchMembers : PairClientResume(k)
    \/ \E k \in WatchMembers : \E u \in UserIds : \E cand \in Payloads :
            PairIceCandidate(k, u, cand)
    \/ Return

SpecPair == InitWatch /\ [][NextPair]_vars

\* Messages in flight are delivered, awaited operations complete and a
\* handler that has run returns.
PairFairness ==
    /\ \A c \in WatchMembers : WF_vars(WatchServerReceive(c))
    /\ \A k \in WatchMembers : WF_vars(PairClientReceive(k))
    /\ \A k \in WatchMembers : WF_vars(PairClientResume(k))
    /\ WF_vars(Return)

SpecPairFair == SpecPair /\ PairFairness

\* =================================================================== claims
\* The connections bound to room r under identity u whose transport is open.
OpenBound(r, u) ==
    {c \in ConnIds : /\ conns[c].ws = "open"
                     /\ conns[c].roomId = r
                     /\ conns[c].user.userId = u}

\* C1: in every state between two handlers, for every room R the keys of R's
\* member map are exactly the identities U for which an open connection is
\* bound to (R, U), and each key maps to that connection.
C1_MemberMapMatchesBindings ==
    \A r \in RoomIds : \A u \in UserIds :
        LET to == MapGet(rooms[r].connsByUserId, u)
        IN  /\ to # NoConn => OpenBound(r, u) = {to}
            /\ to = NoConn => OpenBound(r, u) = {}

\* C2: a room/join for (R, U) arriving on a transport other than the one
\* registered for (R, U) closes the registered transport with code 4000, a
\* code of the application range and not a normal close, before the new
\* connection is stored in R's member map; a join arriving on the registered
\* transport, or for an unregistered identity, closes nothing.
C2_ReplacedClosedBeforeStored ==
    [][(Idle /\ last'.kind = "message" /\ last'.msg.type = "room/join") =>
          LET c == last'.conn
              msg == last'.msg
              existing == MapGet(rooms[msg.roomId].connsByUserId, msg.userId)
              closes == {i \in DOMAIN out' : out'[i].op = "close"}
              stores == {j \in DOMAIN out' : out'[j] = SetEff(c, msg.roomId, msg.userId)}
          IN  /\ Cardinality(stores) = 1
              /\ MapGet(rooms'[msg.roomId].connsByUserId, msg.userId) = c
              /\ existing \notin {NoConn, c} =>
                     /\ Cardinality(closes) = 1
                     /\ \A i \in closes :
                           /\ out'[i] = CloseEff(existing, REPLACED_CLOSE_CODE)
                           /\ \A j \in stores : i < j
                     /\ conns'[existing].ws # "open"
                     /\ REPLACED_CLOSE_CODE \in 4000..4999
              /\ existing \in {NoConn, c} =>
                     /\ closes = {}
                     /\ conns'[c].ws = conns[c].ws]_vars

\* C2 witness: a join has replaced the transport registered for its identity.
C2_Witness ==
    /\ last.kind = "message"
    /\ last.msg.type = "room/join"
    /\ \E i, j \in DOMAIN out :
          /\ i < j
          /\ out[i].op = "close"
          /\ out[i].conn # last.conn
          /\ out[i].code = REPLACED_CLOSE_CODE
          /\ out[j] = SetEff(last.conn, last.msg.roomId, last.msg.userId)

\* C3: a room leaves the registry only in the callback of a cleanup timer,
\* and only when its member map has been empty for the whole grace period
\* that ends with that callback.
C3_RemovedOnlyAfterFullGracePeriod ==
    [][\A r \in RoomIds :
          (rooms[r].exists /\ ~rooms'[r].exists) =>
              /\ last' = TimerEvent(r)
              /\ emptyFor[r] >= TicksPerTtl]_vars

\* The messages of type t that the last handler sent to connection k.
Sent(log, k, t) ==
    {i \in DOMAIN log : log[i].op = "send" /\ log[i].conn = k /\ log[i].msg.type = t}

\* What a handler that only answers sends to connection c: the optional ack,
\* then reply.
Answer(c, msg, reply) ==
    (IF Truthy(msg.requestId) THEN <<SendEff(c, ackMsg(msg.requestId))>> ELSE <<>>)
        \o <<SendEff(c, reply)>>

\* C7: a broadcast with exceptUserId = U (user/update) sends the message
\* exactly once to every connection of the room's member map whose key differs
\* from U and never to the connection keyed by U; a broadcast without
\* exceptUserId (chat, watch, reaction) sends it once to every member; for a
\* room that is not in the registry nothing is sent.
C7_BroadcastExceptSender ==
    [][(/\ Idle
        /\ last'.kind = "message"
        /\ last'.msg.type \in RoomScopedTypes \ RelayTypes
        /\ conns[last'.conn].roomId = last'.msg.roomId) =>
          LET c == last'.conn
              msg == last'.msg
              room == rooms[msg.roomId]
              U == IF msg.type = "user/update" THEN conns[c].user.userId ELSE None
              member(k) == \E u \in MapKeys(room.connsByUserId) :
                               u # U /\ MapGet(room.connsByUserId, u) = k
              excepted(k) == U # None /\ MapGet(room.connsByUserId, U) = k
          IN  \A k \in ConnIds :
                 Cardinality(Sent(out', k, BroadcastType(msg.type))) =
                    IF room.exists /\ member(k) /\ ~excepted(k) THEN 1 ELSE 0]_vars

\* C8: a webrtc/offer, webrtc/answer or webrtc/ice from a Joined sender whose
\* toUserId has no open connection bound to it in the sender's room is
\* answered with peer_not_found and nothing else: nothing is sent to another
\* connection, no member map and no binding changes.
C8_RelayToAbsentPeer ==
    [][(/\ Idle
        /\ last'.kind = "message"
        /\ last'.msg.type \in RelayTypes
        /\ conns[last'.conn].roomId = last'.msg.roomId
        /\ OpenBound(last'.msg.roomId, last'.msg.userId) = {}) =>
          /\ out' = Answer(last'.conn, last'.msg,
                           errorMsg(last'.msg.requestId, "peer_not_found"))
          /\ rooms' = rooms
          /\ conns' = conns]_vars

\* C9: a room-scoped message (chat/send, watch/set_content,
\* watch/playback_state, webrtc/offer, webrtc/answer, webrtc/ice,
\* user/update, reaction/send) from a connection that is bound to no room, or
\* whose payload roomId is not the connection's bound room, is answered with
\* not_in_room to the sender; nothing is sent to another connection and no
\* state changes.
C9_NotInRoomRejected ==
    [][(/\ Idle
        /\ last'.kind = "message"
        /\ last'.msg.type \in RoomScopedTypes
        /\ conns[last'.conn].roomId # last'.msg.roomId) =>
          /\ out' = Answer(last'.conn, last'.msg,
                           errorMsg(last'.msg.requestId, "not_in_room"))
          /\ rooms' = rooms
          /\ conns' = conns
          /\ timers' = timers]_vars

\* C9 witness: a connection bound to a room has had a message for another
\* room rejected.
C9_Witness ==
    /\ last.kind = "message"
    /\ last.msg.type \in RoomScopedTypes
    /\ Truthy(conns[last.conn].roomId)
    /\ conns[last.conn].roomId # last.msg.roomId
    /\ rooms[last.msg.roomId].exists
    /\ MapKeys(rooms[last.msg.roomId].connsByUserId) # {}
    /\ out = Answer(last.conn, last.msg, errorMsg(last.msg.requestId, "not_in_room"))

\* C10: a room/leave from a connection that is bound to no room, or whose
\* payload roomId is not the connection's bound room, is answered with
\* not_in_room; it removes no entry from any member map, sends no
\* room/peer_left, starts no cleanup timer and leaves the binding unchanged.
C10_LeaveNotInRoomRejected ==
    [][(/\ Idle
        /\ last'.kind = "message"
        /\ last'.msg.type = "room/leave"
        /\ conns[last'.conn].roomId # last'.msg.roomId) =>
          /\ out' = Answer(last'.conn, last'.msg,
                           errorMsg(last'.msg.requestId, "not_in_room"))
          /\ rooms' = rooms
          /\ conns' = conns
          /\ timers' = timers]_vars

\* C4: the client never calls addIceCandidate on a session that does not
\* exist or has no remote description; a candidate that arrives while the
\* peer has no session, or a session without remote description, is appended
\* to the peer's queue and handed to no session.
C4_NoCandidateBeforeRemoteDescription ==
    [][\A k \in ConnIds :
          LET C == clients[k]
              D == clients'[k]
              P == D.ev.peer
          IN  /\ \A i \in DOMAIN D.calls :
                    /\ D.pcs[D.calls[i].pc].state # "free"
                    /\ D.pcs[D.calls[i].pc].rd
              /\ (/\ Idle
                  /\ D.ev.kind = "receive"
                  /\ D.ev.type = "webrtc/ice"
                  /\ C.pcsRef[P] = NoPc \/ ~C.pcs[C.pcsRef[P]].rd) =>
                    /\ D.calls = <<>>
                    /\ D.pending[P].present
                    /\ D.pending[P].items = Append(C.pending[P].items, C.arrived + 1)]_vars

\* C4 witness: a candidate has arrived for a peer whose session exists but
\* has no remote description yet, and has been queued.
C4_Witness ==
    LET C == clients[TheClient]
        P == C.ev.peer
    IN  /\ C.ev.kind = "receive"
        /\ C.ev.type = "webrtc/ice"
        /\ C.calls = <<>>
        /\ C.pcsRef[P] # NoPc
        /\ ~C.pcs[C.pcsRef[P]].rd
        /\ C.pending[P].items # <<>>

\* C5: every buffered candidate is handed to the session by the flush that
\* follows the remote description exactly once, after the remote description
\* is set and in the order of arrival; when a flush ends the peer's queue is
\* empty.
C5_FlushedExactlyOnceInOrder ==
    [][\A k \in ConnIds :
          LET C == clients[k]
              D == clients'[k]
          IN  /\ \A i \in DOMAIN D.calls :
                    D.calls[i].via = "flush" =>
                       /\ <<D.calls[i].pc, D.calls[i].cand>> \notin C.handed
                       /\ \A h \in C.handed :
                             h[1] = D.calls[i].pc => h[2] < D.calls[i].cand
                       /\ D.pcs[D.calls[i].pc].rd
              /\ (Idle /\ D.ev.kind = "resume" /\ D.ev.type = "ice" /\ D.calls = <<>>) =>
                    ~D.pending[D.ev.peer].present]_vars

\* C6: of the two members of a pair only the one that was already present
\* when the other joined offers: no webrtc/offer is relayed from a member to
\* a peer that was listed in that member's room/joined reply, and no two
\* members both have an offer relayed to each other.
C6_OnlyExistingMemberOffers ==
    \A p \in hist.offered :
        /\ p \notin hist.listed
        /\ p[1] # p[2] => <<p[2], p[1]>> \notin hist.offered

\* C11: every connection is in at most one room's member map, under at most
\* one identity key, and that room is the connection's bound roomId.
C11_OneRoomOneKeyPerConnection ==
    \A c \in ConnIds :
        LET held == {e \in RoomIds \X UserIds :
                        MapGet(rooms[e[1]].connsByUserId, e[2]) = c}
        IN  /\ Cardinality(held) <= 1
            /\ \A e \in held : conns[c].roomId = e[1]

\* C12: a frame that is not valid JSON, not an object, of another protocol
\* version, with a non-string or unknown type or without payload is answered
\* with exactly one bad_request error that carries no requestId; no ack is
\* sent and the server state does not change.
C12_MalformedAnsweredBadRequest ==
    [][(/\ Idle
        /\ last'.kind = "message"
        /\ \/ last'.msg.shape # "object"
           \/ last'.msg.v # WS_PROTOCOL_VERSION
           \/ last'.msg.typeof # "string"
           \/ last'.msg.type \notin {"room/join", "room/leave"} \cup RoomScopedTypes
           \/ ~last'.msg.payload) =>
          /\ out' = <<SendEff(last'.conn, errorMsg(None, "bad_request"))>>
          /\ rooms' = rooms
          /\ conns' = conns
          /\ timers' = timers]_vars

\* C13: for an envelope that passes validation and carries a requestId the
\* handler's first effect is an ack of that requestId to the sender, and it
\* sends no other ack; for an envelope without requestId it sends no ack.
C13_AckFirstExactlyOnce ==
    [][(/\ Idle
        /\ last'.kind = "message"
        /\ isClientEvent(last'.msg)) =>
          LET acks == {i \in DOMAIN out' : out'[i].op = "send" /\ out'[i].msg.type = "ack"}
          IN  IF Truthy(last'.msg.requestId)
              THEN /\ out' # <<>>
                   /\ out'[1] = SendEff(last'.conn, ackMsg(last'.msg.requestId))
                   /\ acks = {1}
              ELSE acks = {}]_vars

\* C13 witness: a chat/send with a requestId in a room of two members: the
\* ack precedes the two chat/message deliveries.
C13_Witness ==
    /\ last.kind = "message"
    /\ last.msg.type = "chat/send"
    /\ Truthy(last.msg.requestId)
    /\ Len(out) = 3
    /\ out[1].msg.type = "ack"
    /\ out[2].msg.type = "chat/message"
    /\ out[3].msg.type = "chat/message"
    /\ out[2].conn # out[3].conn

\* C14: a room/join never yields room_not_found; when the room is not in the
\* registry the join creates it, registers the connection and answers
\* room/joined with an empty peers list.
C14_JoinCreatesMissingRoom ==
    [][(/\ Idle
        /\ last'.kind = "message"
        /\ isClientEvent(last'.msg)
        /\ last'.msg.type = "room/join") =>
          LET c == last'.conn
              r == last'.msg.roomId
              u == last'.msg.userId
          IN  /\ \A i \in DOMAIN out' : out'[i].msg.code # "room_not_found"
              /\ ~rooms[r].exists =>
                    /\ rooms'[r].exists
                    /\ MapKeys(rooms'[r].connsByUserId) = {u}
                    /\ MapGet(rooms'[r].connsByUserId, u) = c
                    /\ conns'[c].roomId = r
                    /\ conns'[c].user.userId = u
                    /\ \E i \in DOMAIN out' :
                          /\ out'[i].op = "send"
                          /\ out'[i].conn = c
                          /\ out'[i].msg.type = "room/joined"
                          /\ out'[i].msg.roomId = r
                          /\ out'[i].msg.peers = <<>>]_vars

\* C14 witness: a join has just been answered with an empty peers list by a
\* room whose only member is the joiner, after the room had been left empty
\* before (a cleanup timer of that time is still pending).
C14_Witness ==
    /\ last.kind = "message"
    /\ last.msg.type = "room/join"
    /\ rooms[last.msg.roomId].exists
    /\ MapKeys(rooms[last.msg.roomId].connsByUserId) = {last.msg.userId}
    /\ timers[last.msg.roomId] # <<>>
    /\ \E i \in DOMAIN out :
          out[i].msg.type = "room/joined" /\ out[i].msg.peers = <<>>

\* C15: the peers list of a room/joined reply holds the ClientInfo of exactly
\* the other connections registered in the room at that moment, and never
\* the joiner's own identity.
C15_PeersAreTheOtherMembers ==
    [][(/\ Idle
        /\ last'.kind = "message"
        /\ isClientEvent(last'.msg)
        /\ last'.msg.type = "room/join") =>
          LET c == last'.conn
              m == rooms'[last'.msg.roomId].connsByUserId
              others == {m[u] : u \in MapKeys(m)} \ {c}
          IN  \A i \in DOMAIN out' :
                 out'[i].msg.type = "room/joined" =>
                    LET peers == out'[i].msg.peers
                    IN  /\ {peers[j] : j \in DOMAIN peers} = {conns'[d].user : d \in others}
                        /\ Len(peers) = Cardinality(others)
                        /\ \A j \in DOMAIN peers : peers[j].userId # last'.msg.userId]_vars

\* C16: while the client shares its screen, a session whose offer or answer
\* is about to be produced (createOffer or createAnswer is called) sends the
\* shared screen track on its video sender.
C16_NewSessionSendsSharedTrack ==
    [][\A k \in ConnIds :
          LET C == clients[k]
              D == clients'[k]
          IN  \A T \in BagToSet(D.tasks) :
                 (/\ T.at \in {"offer", "answer"}
                  /\ CopiesIn(T, D.tasks) > CopiesIn(T, C.tasks)
                  /\ D.isScreenSharing
                  /\ D.screenLive
                  /\ D.pcs[T.pc].video # None) =>
                    D.pcs[T.pc].video = "screen"]_vars

\* C17: starting or stopping the screen share sends no webrtc/offer or
\* webrtc/answer, creates or closes no session and changes no candidate
\* queue; once the share has been stopped (with the share button or with the
\* browser's stop-sharing control) every session's video sender carries the
\* camera track and its audio sender the microphone track.
C17_ToggleOnlyReplacesTracks ==
    [][\A k \in ConnIds :
          LET C == clients[k]
              D == clients'[k]
              button == D.ev.kind = "toggleScreenShare"
              ended == D.ev.kind = "onended"
              shown == D.ev.kind = "resume" /\ D.ev.type = "display"
              stopped == \/ ended
                         \/ button /\ C.isScreenSharing /\ C.localUser /\ C.roomId # None
          IN  (Idle /\ (button \/ ended \/ shown)) =>
                 /\ \A i \in DOMAIN D.out :
                        D.out[i].type \notin {"webrtc/offer", "webrtc/answer"}
                 /\ D.pcsRef = C.pcsRef
                 /\ D.pending = C.pending
                 /\ \A p \in PcIds :
                        /\ D.pcs[p].state = C.pcs[p].state
                        /\ D.pcs[p].peer = C.pcs[p].peer
                        /\ D.pcs[p].rd = C.pcs[p].rd
                 /\ stopped =>
                        \A u \in UserIds :
                           D.pcsRef[u] # NoPc =>
                              /\ D.pcs[D.pcsRef[u]].video \in {None, "camera"}
                              /\ D.pcs[D.pcsRef[u]].audio \in {None, "mic"}]_vars

\* the position the documented clocking rule estimates for a snapshot
EstimatedPositionMs(snap) ==
    IF snap.playing
    THEN snap.positionMs + (IF snap.nowMs > snap.hostTsMs
                            THEN snap.nowMs - snap.hostTsMs ELSE 0)
    ELSE snap.positionMs

\* C18: after a playback snapshot the receiver's target position is
\* positionSec + max(0, nowMs - hostTsMs)/1000 when playing and positionSec
\* when paused.
C18_TargetCompensatesLatency ==
    \A k \in ConnIds :
        clients[k].player.snap # NoSnap =>
            clients[k].player.currentTime = EstimatedPositionMs(clients[k].player.snap)

\* C19: on a playback snapshot the receiver seeks, to its target position,
\* exactly when its local position differs from the target by more than
\* 250 ms; its playback rate stays within [0.98, 1.02].
C19_SeekBeyondDriftLimit ==
    [][\A k \in ConnIds :
          LET P == clients[k].player
              Q == clients'[k].player
              seeks == Q.lastSeekTime # P.lastSeekTime
          IN  (/\ Idle
               /\ clients'[k].ev.kind = "receive"
               /\ clients'[k].ev.type = "watch/playback_state") =>
                 /\ seeks <=> Abs(P.pos - Q.currentTime) > DRIFT_LIMIT_MS
                 /\ seeks => Q.pos = Q.currentTime
                 /\ ~seeks => Q.pos = P.pos
                 /\ Q.rate >= RATE_MIN /\ Q.rate <= RATE_MAX]_vars

\* C20: a reaction/send from a Joined connection for its bound room delivers
\* exactly one reaction/received, carrying the sender's bound userId and
\* displayName, to every member of the room, the sender included, and to
\* nobody else.
C20_ReactionOnceToEveryMember ==
    [][(/\ Idle
        /\ last'.kind = "message"
        /\ isClientEvent(last'.msg)
        /\ last'.msg.type = "reaction/send"
        /\ conns[last'.conn].user # NoUser
        /\ conns[last'.conn].roomId = last'.msg.roomId) =>
          LET c == last'.conn
              m == rooms[last'.msg.roomId].connsByUserId
              members == {m[u] : u \in MapKeys(m)} \cup {c}
          IN  \A k \in ConnIds :
                 LET got == Sent(out', k, "reaction/received")
                 IN  /\ Cardinality(got) = IF k \in members THEN 1 ELSE 0
                     /\ \A i \in got :
                           /\ out'[i].msg.userId = conns[c].user.userId
                           /\ out'[i].msg.displayName = conns[c].user.displayName
                           /\ out'[i].msg.roomId = last'.msg.roomId]_vars

\* C21: a message answered with an error (bad_request, unauthorized,
\* not_in_room, peer_not_found) closes no transport and changes no
\* connection, no member map and no timer; the error goes to the sender only.
C21_ErrorLeavesConnectionAlone ==
    [][(/\ Idle
        /\ last'.kind = "message"
        /\ \E i \in DOMAIN out' : out'[i].msg.type = "error") =>
          /\ \A i \in DOMAIN out' :
                /\ out'[i].op = "send"
                /\ out'[i].conn = last'.conn
                /\ out'[i].msg.type \in {"ack", "error"}
                /\ out'[i].msg.type = "error" =>
                      out'[i].msg.code \in {"bad_request", "unauthorized",
                                            "not_in_room", "peer_not_found"}
          /\ conns' = conns
          /\ rooms' = rooms
          /\ timers' = timers
          /\ conns'[last'.conn].ws # "closed"]_vars

\* C21 witness: a Joined connection with an open transport has just been
\* answered peer_not_found and is still Joined.
C21_Witness ==
    /\ last.kind = "message"
    /\ \E i \in DOMAIN out : out[i].msg.code = "peer_not_found"
    /\ conns[last.conn].ws = "open"
    /\ conns[last.conn].roomId = last.msg.roomId
    /\ MapGet(rooms[last.msg.roomId].connsByUserId, conns[last.conn].user.userId) = last.conn

WatchTypes == {"watch/content", "watch/playback_state"}

PeerLeft(roomId, userId) ==
    [S2C("room/peer_left") EXCEPT !.roomId = roomId, !.userId = userId]

\* C23: when the transport of a connection bound to (R, U) closes, U is
\* deleted from R's member map, room/peer_left(U) is sent once to every entry
\* that remains, the cleanup timer is started if the map is now empty and the
\* connection is unbound: the room, timer and message effects of room/leave
\* for R in the same state. When the transport of a connection that is not
\* bound to a room closes (it never joined, or it left), no room, no timer
\* and no other connection changes and nothing is sent.
C23_CloseLeavesLikeRoomLeave ==
    [][(Idle /\ last'.kind = "close") =>
          LET c == last'.conn
              R == conns[c].roomId
              U == conns[c].user.userId
              asLeave == HandleLeave([State EXCEPT !.conns[c].ws = "closed"], c,
                                     C2S("room/leave", None, R, None, None, None))
          IN  /\ conns'[c].ws = "closed"
              /\ conns'[c].roomId = None
              /\ \A d \in ConnIds \ {c} :
                    \/ conns'[d] = conns[d]
                    \* the record of a closed transport that no map refers to
                    \* any more is dropped
                    \/ conns[d].ws = "closed" /\ conns'[d] = NewConn("closed")
              /\ IF conns[c].user # NoUser /\ Truthy(R)
                 THEN /\ rooms' = asLeave.rooms
                      /\ timers' = asLeave.timers
                      /\ out' = asLeave.out
                      /\ rooms[R].exists =>
                            LET left == MapEntries(rooms'[R].connsByUserId)
                            IN  /\ rooms'[R].connsByUserId =
                                      MapDelete(rooms[R].connsByUserId, U)
                                /\ out' = [i \in 1..Len(left) |->
                                              SendEff(left[i].conn, PeerLeft(R, U))]
                                /\ IF Len(left) = 0
                                   THEN rooms'[R].cleanupTimer = TicksPerTtl
                                   ELSE /\ rooms'[R].cleanupTimer = rooms[R].cleanupTimer
                                        /\ timers' = timers
                 ELSE /\ rooms' = rooms
                      /\ timers' = timers
                      /\ out' = <<>>]_vars

\* C23 witness: the transport of a connection bound to a room has just
\* closed, room/peer_left was sent to a remaining member and the closed
\* connection is no longer in the map.
C23_Witness ==
    /\ last.kind = "close"
    /\ \E i \in DOMAIN out :
          /\ out[i].msg.type = "room/peer_left"
          /\ out[i].conn # last.conn
          /\ rooms[out[i].msg.roomId].connsByUserId[out[i].msg.userId] = NoConn
    /\ ~ReferencedIn(rooms, last.conn)

\* C24: when a connection departs from room R with identity U (room/leave
\* for R, or the close of its transport while bound to R) and it was stored
\* under U in R's member map immediately before, every other connection that
\* remains in the map is sent room/peer_left(U) exactly once and the departing
\* connection is sent none; when it was not stored under U in R's map
\* immediately before (a repeated room/leave), no room/peer_left is sent.
C24_PeerLeftOncePerDeparture ==
    [][(/\ Idle
        /\ \/ last'.kind = "close"
           \/ /\ last'.kind = "message"
              /\ isClientEvent(last'.msg)
              /\ last'.msg.type = "room/leave") =>
          LET c == last'.conn
              R == IF last'.kind = "close" THEN conns[c].roomId ELSE last'.msg.roomId
              U == conns[c].user.userId
              member == /\ conns[c].user # NoUser
                        /\ R \in RoomIds
                        /\ rooms[R].exists
                        /\ rooms[R].connsByUserId[U] = c
              remaining == IF R \in RoomIds
                           THEN {rooms'[R].connsByUserId[u] : u \in UserIds} \ {NoConn, c}
                           ELSE {}
          IN  IF member
              THEN \A d \in ConnIds :
                      /\ Sent(out', d, "room/peer_left") =
                            {i \in DOMAIN out' : out'[i] = SendEff(d, PeerLeft(R, U))}
                      /\ Cardinality(Sent(out', d, "room/peer_left")) =
                            IF d \in remaining THEN 1 ELSE 0
              ELSE \A i \in DOMAIN out' : out'[i].msg.type # "room/peer_left"]_vars

\* C25: when the transport of a connection closes that was bound to (R, U)
\* and replaced (closed with 4000) by a join of another connection for the
\* same (R, U), and that other connection is stored under U in R's member
\* map, then the close leaves U -> the new connection in the map, sends no
\* room/peer_left(U) and starts no cleanup timer for R.
C25_ReplacedCloseKeepsSuccessor ==
    [][(/\ Idle
        /\ last'.kind = "close"
        /\ conns[last'.conn].ws = "closing"
        /\ conns[last'.conn].user # NoUser
        /\ Truthy(conns[last'.conn].roomId)
        /\ rooms[conns[last'.conn].roomId].exists
        /\ rooms[conns[last'.conn].roomId].connsByUserId[conns[last'.conn].user.userId]
              \notin {NoConn, last'.conn}) =>
          LET c == last'.conn
              R == conns[c].roomId
              U == conns[c].user.userId
          IN  /\ rooms'[R].connsByUserId[U] = rooms[R].connsByUserId[U]
              /\ \A i \in DOMAIN out' : out'[i].msg # PeerLeft(R, U)
              /\ rooms'[R].cleanupTimer = rooms[R].cleanupTimer
              /\ timers' = timers]_vars

\* the flushes of peer's queue that are suspended at addIceCandidate
FlushesInProgress(C, peer) ==
    LET ts == {T \in BagToSet(C.tasks) : T.at = "ice" /\ T.peer = peer}
        RECURSIVE Sum(_)
        Sum(xs) == IF xs = {} THEN 0
                   ELSE LET T == CHOOSE y \in xs : TRUE
                        IN C.tasks[T] + Sum(xs \ {T})
    IN Sum(ts)

\* C26: when a remote-description application for a peer completes while a
\* flush of that peer's queue is still in progress, and while two flushes of
\* that queue go on side by side afterwards, every candidate a flush hands
\* to the session has not been handed to that session before and is later
\* in arrival order than every candidate already handed to it.
C26_OverlappingFlushHandsOnce ==
    [][\A k \in ConnIds :
          LET C == clients[k]
              D == clients'[k]
              overlap ==
                  /\ Idle
                  /\ D.ev.kind = "resume"
                  /\ \/ D.ev.type = "srd" /\ FlushesInProgress(C, D.ev.peer) >= 1
                     \/ D.ev.type = "ice" /\ FlushesInProgress(C, D.ev.peer) >= 2
          IN  overlap =>
                \A i \in DOMAIN D.calls :
                    D.calls[i].via = "flush" =>
                       /\ <<D.calls[i].pc, D.calls[i].cand>> \notin C.handed
                       /\ \A h \in C.handed :
                             h[1] = D.calls[i].pc => h[2] < D.calls[i].cand]_vars

\* C27: once room/peer_left(P) has been handled, no later message about P
\* has arrived and no handler is in flight any more, the client has no
\* session registered for P and no candidate queue for P.
C27_NothingKeptForDepartedPeer ==
    \A k \in ConnIds : \A P \in hist.gone :
        (k = TheClient /\ clients[k].tasks = EmptyBag) =>
            /\ clients[k].pcsRef[P] = NoPc
            /\ ~clients[k].pending[P].present

\* C28: once leaveRoom() has been called, nothing has been received and no
\* room joined since, and no handler is in flight any more, the session map
\* is empty and no peer has a candidate queue.
C28_NothingKeptAfterLeaveRoom ==
    \A k \in ConnIds :
        (k = TheClient /\ hist.quit /\ clients[k].tasks = EmptyBag) =>
            \A u \in UserIds :
                /\ clients[k].pcsRef[u] = NoPc
                /\ ~clients[k].pending[u].present

\* C29: when the ICE connection state of a session becomes failed, the
\* client calls restartIce() on that session and does nothing else: the
\* session is not closed, the session map, every other session, the
\* candidate queues and the handlers in flight are unchanged, no candidate is
\* handed over and no message is sent.
C29_IceFailedOnlyRestarts ==
    [][\A k \in ConnIds :
          LET C == clients[k]
              D == clients'[k]
          IN  (Idle /\ D.ev.kind = "icestate" /\ D.ev.type = "failed") =>
                /\ D.restarts = <<D.ev.pc>>
                /\ D = [C EXCEPT !.ev = D.ev, !.restarts = D.restarts]
                /\ D.pcs[D.ev.pc].state = "open"
                /\ D.out = <<>>
                /\ D.calls = <<>>
                /\ net' = net]_vars

\* C29 witness: ICE has just failed on the session registered for a peer
\* while a candidate queue for the peer exists and another handler is in
\* flight; restartIce() was called on it.
C29_Witness ==
    LET C == clients[TheClient]
    IN  /\ C.ev.kind = "icestate"
        /\ C.ev.type = "failed"
        /\ C.restarts = <<C.ev.pc>>
        /\ C.pcsRef[C.ev.peer] = C.ev.pc
        /\ C.pending[C.ev.peer].present
        /\ C.tasks # EmptyBag

\* C30: when addIceCandidate rejects during a flush, the flush goes on as
\* after a success: the next element of the array is handed to the same
\* session, or, at the end of the array, the peer's queue is deleted and the
\* offer handler goes on to create its answer; no session is closed or
\* removed.  A candidate applied directly ends its handler whatever the
\* outcome: no session is closed and no handler in flight is dropped.  The
\* offer handler that resumes from createAnswer sends webrtc/answer unless
\* its session was closed meanwhile.
C30_FailedCandidateIsSkipped ==
    [][\A k \in ConnIds :
          LET C == clients[k]
              D == clients'[k]
              P == D.ev.peer
              Kept == /\ D.pcs = C.pcs
                      /\ D.pcsRef = C.pcsRef
          IN  /\ (Idle /\ D.ev.kind = "resume" /\ D.ev.type = "ice" /\ ~D.ev.ok) =>
                    /\ Kept
                    /\ \E T \in BagToSet(C.tasks) :
                          /\ T.at = "ice" /\ T.peer = P
                          /\ LET arr == IF T.attached THEN C.pending[P].items ELSE T.items
                                 rest == C.tasks (-) SetToBag({T})
                             IN  IF T.idx < Len(arr)
                                 THEN /\ D.calls = <<[pc |-> T.pc, cand |-> arr[T.idx + 1],
                                                      via |-> "flush"]>>
                                      /\ D.tasks = rest (+) SetToBag({[T EXCEPT !.idx = @ + 1]})
                                      /\ D.pending = C.pending
                                 ELSE /\ D.calls = <<>>
                                      /\ ~D.pending[P].present
                                      /\ BagCardinality(D.tasks) =
                                            BagCardinality(rest)
                                              + IF T.kind = "offer" THEN 1 ELSE 0
                                      /\ T.kind = "offer" =>
                                            \E A \in BagToSet(D.tasks) :
                                                /\ A.kind = "offer" /\ A.at = "answer"
                                                /\ A.peer = P /\ A.pc = T.pc
              /\ (/\ Idle /\ D.ev.kind = "receive" /\ D.ev.type = "webrtc/ice"
                  /\ D.calls # <<>>) =>
                    /\ Kept
                    /\ D.tasks = C.tasks
              /\ (/\ Idle /\ D.ev.kind = "resume" /\ D.ev.type = "answer"
                  /\ C.wsOpen
                  /\ \A p \in PcIds : C.pcs[p].peer = P => C.pcs[p].state # "closed") =>
                    /\ Len(D.out) = 1
                    /\ D.out[1].type = "webrtc/answer"
                    /\ D.out[1].userId = P]_vars

\* C30 witness: addIceCandidate has just rejected for the first candidate of
\* a flush on the offer path and the second candidate of the queue was handed
\* to the same session.
C30_Witness ==
    LET C == clients[TheClient]
    IN  /\ C.ev.kind = "resume"
        /\ C.ev.type = "ice"
        /\ ~C.ev.ok
        /\ Len(C.calls) = 1
        /\ C.calls[1].cand = 2
        /\ \E T \in BagToSet(C.tasks) :
              T.kind = "offer" /\ T.at = "ice" /\ T.idx = 2 /\ T.pc = C.calls[1].pc

C32_ErrorCarriesRequestId ==
    [][(/\ Idle
        /\ last'.kind = "message"
        /\ isClientEvent(last'.msg)) =>
          \A i \in DOMAIN out' :
              out'[i].msg.type = "error" =>
                  /\ out'[i].op = "send"
                  /\ out'[i].conn = last'.conn
                  /\ out'[i].msg.requestId = last'.msg.requestId]_vars

\* C32 witness: a room/leave with a requestId from a connection that never
\* joined has just been answered with unauthorized carrying that requestId.
C32_Witness ==
    /\ last.kind = "message"
    /\ isClientEvent(last.msg)
    /\ Truthy(last.msg.requestId)
    /\ \E i \in DOMAIN out :
          /\ out[i].msg.type = "error"
          /\ out[i].msg.code = "unauthorized"
          /\ out[i].msg.requestId = last.msg.requestId

\* the message types the server produces for a room
RoomMessageTypes ==
    {"room/peer_joined", "room/peer_left", "chat/message", "watch/content",
     "watch/playback_state", "user/updated", "reaction/received"} \cup RelayTypes

\* C35: every room/peer_joined, room/peer_left, chat/message, watch/content,
\* watch/playback_state, user/updated, reaction/received and relayed webrtc
\* message the server sends for room R goes to a connection whose bound room,
\* once the handler has run, is R.
C35_RoomMessagesStayInRoom ==
    [][Idle =>
          \A i \in DOMAIN out' :
              (out'[i].op = "send" /\ out'[i].msg.type \in RoomMessageTypes) =>
                  conns'[out'[i].conn].roomId = out'[i].msg.roomId]_vars

\* C38: when the display stream's video track ends while the client shares
\* its screen in a room, the client does what the share button does when it
\* stops the share: isScreenSharing becomes false, the video sender of every
\* session carries the camera track and its audio sender the microphone
\* track, and user/update with isScreenSharing false is sent.
C38_TrackEndedStopsShare ==
    [][\A k \in ConnIds :
          LET C == clients[k]
              D == clients'[k]
          IN  (/\ Idle
               /\ D.ev.kind = "onended"
               /\ C.isScreenSharing
               /\ C.localUser
               /\ C.roomId # None) =>
                 /\ ~D.isScreenSharing
                 /\ \A u \in UserIds :
                       D.pcsRef[u] # NoPc =>
                          /\ D.pcs[D.pcsRef[u]].video \in {None, "camera"}
                          /\ D.pcs[D.pcsRef[u]].audio \in {None, "mic"}
                 /\ C.wsOpen =>
                       \E i \in DOMAIN D.out :
                           /\ D.out[i].type = "user/update"
                           /\ D.out[i].data = "not_sharing"
                 /\ [D EXCEPT !.ev = NoClientEvent] =
                       [toggleScreenShare(C, TRUE, FALSE) EXCEPT !.ev = NoClientEvent]]_vars

\* C37: onGesture is invoked only on a frame that completes HOLD_FRAMES
\* consecutive frames classified with the label it is invoked with, and,
\* when it was invoked before, only after NEUTRAL_REQUIRED frames without a
\* recognised gesture were seen in S_COOLDOWN since that invocation, for every
\* frame sequence and every timing of the 500 ms timer.
C37_FireAfterHoldAndNeutralGate ==
    [][gesture'.fired # None =>
          /\ Len(gesture'.frames) = HOLD_FRAMES
          /\ \A i \in DOMAIN gesture'.frames : gesture'.frames[i] = gesture'.fired
          /\ gesture.invocations >= 1 => gesture.neutrals >= NEUTRAL_REQUIRED]_vars

\* C37 witness: onGesture has just been invoked for the second time.
C37_Witness ==
    /\ gesture.fired # None
    /\ gesture.invocations = 2
    /\ gesture.state = S_ACTIVE

\* C33: a watch/playback_state from a connection bound to the room is sent,
\* with the state it carries unchanged, once to every connection of the
\* room's member map, whoever the sender is; a client that receives a
\* watch/playback_state holds the playing flag and the position of that
\* snapshot afterwards, whatever it held before and whoever sent it.
C33_LastSnapshotWins ==
    [][Idle =>
          /\ (/\ last'.kind = "message"
              /\ last'.msg.type = "watch/playback_state"
              /\ conns[last'.conn].roomId = last'.msg.roomId) =>
                LET m == MapEntries(rooms[last'.msg.roomId].connsByUserId)
                IN  out' = [i \in 1..Len(m) |->
                              SendEff(m[i].conn,
                                      [S2C("watch/playback_state") EXCEPT
                                          !.roomId = last'.msg.roomId,
                                          !.userId = conns[last'.conn].user.userId,
                                          !.data = last'.msg.data])]
          /\ \A k \in ConnIds :
                (/\ last'.kind = "client" /\ last'.conn = k
                 /\ clients'[k].ev.kind = "receive"
                 /\ clients'[k].ev.type = "watch/playback_state") =>
                    LET state == Head(net.s2c[k]).data
                        P == clients'[k].player
                    IN  /\ P.playbackState = IF state.playing THEN "playing" ELSE "paused"
                        /\ P.currentTime = state.positionMs]_vars

\* C33 witness: a client that had set the playback itself has just received
\* a different snapshot sent by the other member and holds that one.
C33_Witness ==
    \E k \in ConnIds :
        /\ last.kind = "client" /\ last.conn = k
        /\ clients[k].ev.kind = "receive"
        /\ clients[k].ev.type = "watch/playback_state"
        /\ hist.lastSnap # <<>>
        /\ hist.plays >= 2
        /\ clients[k].player.playbackState = "paused"
        /\ clients[k].player.currentTime = 10000
        /\ \E j \in ConnIds \ {k} :
              clients[j].player.playbackState = "playing"

\* C34: whenever no message is in flight, every client holds the playing
\* flag and the position of the last snapshot the server has broadcast,
\* also after both participants called setPlayback at the same time and
\* applied their own change first.
C34_ClientsConvergeOnLastSnapshot ==
    (net = NoTraffic /\ hist.lastSnap # <<>>) =>
        \A k \in WatchMembers :
            /\ clients[k].player.playbackState =
                  IF hist.lastSnap[1].playing THEN "playing" ELSE "paused"
            /\ clients[k].player.currentTime = hist.lastSnap[1].positionMs

\* C34 witness: a participant called setPlayback while the other's snapshot
\* was still on its way to it; now nothing is in flight and both hold the last
\* snapshot broadcast.
C34_Witness ==
    /\ net = NoTraffic
    /\ hist.raced
    /\ last = IdleEvent
    /\ hist.plays = MaxPlaybacks
    /\ hist.lastSnap # <<>>
    /\ hist.lastSnap[1].playing
    /\ hist.lastSnap[1].positionMs = 10000
    /\ \A k \in WatchMembers : clients[k].player.currentTime = 10000

\* k holds a session for peer with its remote description set and nothing
\* left in the peer's candidate queue
Established(k, peer) ==
    LET pc == clients[k].pcsRef[peer]
    IN  /\ pc # NoPc
        /\ clients[k].pcs[pc].state = "open"
        /\ clients[k].pcs[pc].rd
        /\ clients[k].pending[peer] = NoQueue

\* C36: after u2 joined the room of u1, when messages are delivered and no
\* operation fails, from some point on u1 has sent exactly one webrtc/offer,
\* to u2, u2 has sent exactly one webrtc/answer, to u1, and each of the two
\* holds a session for the other with its remote description set and an empty
\* candidate queue.
C36_PairConnects ==
    <>[](/\ hist.offers = << <<"u1", "u2">> >>
         /\ hist.answers = << <<"u2", "u1">> >>
         /\ Established(1, "u2")
         /\ Established(2, "u1"))

\* C36 witness: the two are connected after candidates of the other side
\* had arrived at each before its session could take them.
C36_Witness ==
    /\ Established(1, "u2")
    /\ Established(2, "u1")
    /\ hist.offers # <<>>
    /\ hist.answers # <<>>
    /\ \A k \in WatchMembers :
          \E pc \in PcIds : \E cand \in Payloads : <<pc, cand>> \in clients[k].handed

====
